---------------------------- MODULE Spec2Model ----------------------------
(***************************************************************************)
(* A model of the e-commerce REST backend: the auth, category and product  *)
(* controllers, the mongoose schemas they persist through, the             *)
(* authenticate middleware, slug derivation and the pagination helper of   *)
(* ResponseUtil.                                                           *)
(*                                                                         *)
(* Strings are sequences of one-character strings so that toLowerCase,     *)
(* trim and the regular-expression replacements can be computed.           *)
(***************************************************************************)
EXTENDS Integers, Sequences, FiniteSets, TLC

VARIABLES
    users,       \* the User collection: a set of persisted documents
    signedUp,    \* history: the payloads of the signups that succeeded
    tokens,      \* the tokens sent by logins that a client has kept
    now,         \* the clock, in days
    categories,  \* the Category collection
    products,    \* the Product collection
    nextId,      \* the number of ObjectIds generated so far
    resp,        \* the request handled last and the response it got
    pure,        \* input and results of the pure functions (slug, pagination)
    limits       \* the store of each rate-limit policy: per client address,
                 \* the hits of the current window and how many of them passed

vars == <<users, signedUp, tokens, now, categories, products, nextId, resp, pure,
          limits>>

authVars == <<users, signedUp, tokens, now>>
catalogVars == <<categories, products>>

-----------------------------------------------------------------------------
(* Bounds of the model.                                                    *)

MaxNameLen == 4      \* longest name given to the slug derivation
MaxItems == 9        \* largest totalItems given to paginated
MaxPage == 5         \* largest currentPage given to paginated
MaxLimit == 4        \* largest itemsPerPage given to paginated

-----------------------------------------------------------------------------
(* Characters and strings.                                                 *)

LowerOf == [c \in {"A", "B", "C"} |->
              CASE c = "A" -> "a" [] c = "B" -> "b" [] c = "C" -> "c"]

\* String.prototype.toLowerCase on one character
LowerChar(c) == IF c \in DOMAIN LowerOf THEN LowerOf[c] ELSE c

\* String.prototype.toLowerCase
toLowerCase(s) == [i \in 1..Len(s) |-> LowerChar(s[i])]

\* the character class [a-z0-9]
IsAlnum(c) == c \in {"a", "b", "c", "d", "0", "1", "2"}

IsSpace(c) == c = " "

RECURSIVE SkipNonAlnum(_)
\* the rest of s after the run of characters outside [a-z0-9] it starts with
SkipNonAlnum(s) ==
    IF s = <<>> \/ IsAlnum(Head(s)) THEN s ELSE SkipNonAlnum(Tail(s))

RECURSIVE ReplaceNonAlnumRuns(_)
\* .replace(/[^a-z0-9]+/g, '-')
ReplaceNonAlnumRuns(s) ==
    IF s = <<>> THEN <<>>
    ELSE IF IsAlnum(Head(s)) THEN <<Head(s)>> \o ReplaceNonAlnumRuns(Tail(s))
    ELSE <<"-">> \o ReplaceNonAlnumRuns(SkipNonAlnum(s))

\* .replace(/(^-|-$)/g, ''): one hyphen at the start and one at the end
StripEdgeHyphens(s) ==
    LET s1 == IF s # <<>> /\ Head(s) = "-" THEN Tail(s) ELSE s
    IN  IF s1 # <<>> /\ s1[Len(s1)] = "-" THEN SubSeq(s1, 1, Len(s1) - 1) ELSE s1

\* a slug derivation that strips the edge hyphens before the runs are replaced
generateSlugStripFirst(name) ==
    ReplaceNonAlnumRuns(StripEdgeHyphens(toLowerCase(name)))

\* a slug derivation that leaves the edge hyphens in place
generateSlugNoStrip(name) == ReplaceNonAlnumRuns(toLowerCase(name))

\* generateSlug of the product controller
generateSlug(name) ==
    StripEdgeHyphens(ReplaceNonAlnumRuns(toLowerCase(name)))

\* productSchema.pre('save'), the slug part: a new document's name counts as
\* modified, and the slug is derived only when the document has none
productPreSaveSlug(name, slug) ==
    IF slug = <<>>
    THEN StripEdgeHyphens(ReplaceNonAlnumRuns(toLowerCase(name)))
    ELSE slug

\* categorySchema.pre('save')
categoryPreSaveSlug(name, slug) ==
    IF slug = <<>>
    THEN StripEdgeHyphens(ReplaceNonAlnumRuns(toLowerCase(name)))
    ELSE slug

\* String.prototype.trim, the mongoose `trim: true` setter
RECURSIVE TrimStart(_)
TrimStart(s) == IF s # <<>> /\ IsSpace(Head(s)) THEN TrimStart(Tail(s)) ELSE s

RECURSIVE TrimEnd(_)
TrimEnd(s) ==
    IF s # <<>> /\ IsSpace(s[Len(s)]) THEN TrimEnd(SubSeq(s, 1, Len(s) - 1)) ELSE s

trim(s) == TrimEnd(TrimStart(s))

-----------------------------------------------------------------------------
(* HttpStatusCode and the response envelope of ResponseUtil.               *)

OK == 200
BAD_REQUEST == 400
UNAUTHORIZED == 401
FORBIDDEN == 403
UNPROCESSABLE_ENTITY == 422
INTERNAL_SERVER_ERROR == 500

\* JavaScript's null and undefined; a value v that is present is {v}
Null == {}
Some(v) == {v}
Val(o) == CHOOSE v \in o : TRUE

\* an express Response nothing has been sent on; keys are the members of
\* the JSON body that was sent
NewRes ==
    [sent |-> FALSE, threw |-> FALSE, status |-> 0, success |-> FALSE,
     message |-> "", data |-> Null, errors |-> <<>>, keys |-> {}]

\* res.status(code).json(body): a second send on the same response throws
\* ERR_HTTP_HEADERS_SENT and leaves what was sent as it is
Json(res, statusCode, body) ==
    IF res.sent THEN [res EXCEPT !.threw = TRUE]
    ELSE [sent |-> TRUE, threw |-> FALSE, status |-> statusCode,
          success |-> body.success, message |-> body.message,
          data |-> body.data, errors |-> body.errors, keys |-> body.keys]

\* ResponseUtil.success; a success body has no errors member (<<>> here),
\* and no meta member, which is undefined in every call
success(res, data, message) ==
    Json(res, OK, [success |-> TRUE, message |-> message, data |-> Some(data),
                   errors |-> <<>>,
                   keys |-> {"success", "message", "data", "timestamp"}])

\* ResponseUtil.error; errors are modelled by the fields they name
error(res, message, statusCode, errors) ==
    Json(res, statusCode, [success |-> FALSE, message |-> message,
                           data |-> Null, errors |-> errors,
                           keys |-> {"success", "message", "data", "errors",
                                     "timestamp"}])

validationError(res, errors) ==
    error(res, "Validation failed", UNPROCESSABLE_ENTITY, errors)

unauthorized(res, message) == error(res, message, UNAUTHORIZED, <<>>)

forbidden(res, message) == error(res, message, FORBIDDEN, <<>>)

badRequest(res, message, errors) == error(res, message, BAD_REQUEST, errors)

internalError(res, message) == error(res, message, INTERNAL_SERVER_ERROR, <<>>)

\* what a handler or middleware leaves behind: the response, whether next()
\* was called, the user attached to the request, and whether an exception
\* left the handler uncaught (a rejected promise nothing handles)
Outcome(res, next, user, unhandled) ==
    [res |-> res, next |-> next, user |-> user, unhandled |-> unhandled]

\* the catch block of a controller: ResponseUtil.internalError, which throws
\* again when the response was sent already
Catch(res, message) ==
    LET r == internalError([res EXCEPT !.threw = FALSE], message)
    IN  Outcome([r EXCEPT !.threw = FALSE], FALSE, Null, r.threw)

\* the request handled last: the route or middleware, the request, what it
\* left behind, and whether the route's controller was entered
Resp(op, req, out, handler) ==
    [op |-> op, req |-> req, res |-> out.res, next |-> out.next,
     user |-> out.user, unhandled |-> out.unhandled, handler |-> handler]

NoResp == Resp("none", Null, Outcome(NewRes, FALSE, Null, FALSE), FALSE)

\* validate(schema) for a schema with a body part only: errors are the
\* fields that fail; no error calls next, any error sends one 422
validate(errors) ==
    IF errors # <<>>
    THEN Outcome(validationError(NewRes, errors), FALSE, Null, FALSE)
    ELSE Outcome(NewRes, TRUE, Null, FALSE)

\* the fields of fs, in order, whose check failed
RECURSIVE Failing(_)
Failing(fs) ==
    IF fs = <<>> THEN <<>>
    ELSE IF Head(fs)[2] THEN Failing(Tail(fs))
    ELSE <<Head(fs)[1]>> \o Failing(Tail(fs))

-----------------------------------------------------------------------------
(* rateLimitConfig: one express-rate-limit instance per policy, each with  *)
(* its own in-memory store keyed by the client address.                    *)

MaxOtherHits == 2    \* requests on the counters beside the one under load
MaxExcess == 2       \* requests an address sends beyond a policy's max

TOO_MANY_REQUESTS == 429

GeneralMax == 100
AuthMax == 5
PasswordResetMax == 3
CreateMax == 10
UploadMax == 20
AdminMax == 30

Policies == {"general", "auth", "passwordReset", "create", "upload", "admin"}
Addresses == {"ip1", "ip2"}

\* the max option of a policy
Max(policy) ==
    CASE policy = "general" -> GeneralMax
      [] policy = "auth" -> AuthMax
      [] policy = "passwordReset" -> PasswordResetMax
      [] policy = "create" -> CreateMax
      [] policy = "upload" -> UploadMax
      [] policy = "admin" -> AdminMax

\* the message the handler option of a policy sends
LimitMessage(policy) ==
    CASE policy = "general" -> "Too many requests, please try again later"
      [] policy = "auth" ->
             "Too many authentication attempts, please try again in 15 minutes"
      [] policy = "passwordReset" ->
             "Too many password reset attempts, please try again in 1 hour"
      [] policy = "create" -> "Too many requests, please try again in a moment"
      [] policy = "upload" -> "Upload limit exceeded, please try again later"
      [] policy = "admin" -> "Too many requests, please slow down"

rateLimitExceeded(res, message) == error(res, message, TOO_MANY_REQUESTS, <<>>)

\* the stores before any request
NoLimits ==
    [policy \in Policies |->
        [ip \in Addresses |-> [totalHits |-> 0, passed |-> 0]]]

\* a limiter that rejects the request that reaches max
ExceededAtMax(totalHits, max) == totalHits >= max

\* express-rate-limit rejects a request whose hit count is above max
Exceeded(totalHits, max) == totalHits > max

\* the middleware of a policy on a request of address ip: the store counts
\* the hit, then the request passes (next) or the policy's handler answers
rateLimit(policy, ip) ==
    LET totalHits == limits[policy][ip].totalHits + 1
        over == Exceeded(totalHits, Max(policy))
        passed == limits[policy][ip].passed + (IF over THEN 0 ELSE 1)
    IN  [out |-> IF over
                 THEN Outcome(rateLimitExceeded(NewRes, LimitMessage(policy)),
                              FALSE, Null, FALSE)
                 ELSE Outcome(NewRes, TRUE, Null, FALSE),
         limits |-> [limits EXCEPT ![policy][ip] =
                        [totalHits |-> totalHits, passed |-> passed]]]

\* the windows of the keys in ips have elapsed: the store drops their hits
ResetKeys(policy, ips) ==
    [limits EXCEPT ![policy] =
        [ip \in Addresses |-> IF ip \in ips
                              THEN [totalHits |-> 0, passed |-> 0]
                              ELSE limits[policy][ip]]]

-----------------------------------------------------------------------------
(* Users: the schema, tokens, signup, login and authenticate.              *)

MaxUsers == 2        \* signups that persist a user
MaxTokens == 1       \* tokens a client keeps for later requests
MaxTime == 2         \* last day of the clock
JwtExpiresIn == 2    \* JWT_EXPIRES_IN in days, as the environment sets it
                     \* (the code's default is '7d')

UsernameMin == 3
UsernameMax == 50
PhoneMin == 10
PhoneMax == 15
PasswordMinLength == 6   \* userSchema password minlength

Rep(c, n) == [i \in 1..n |-> c]

\* request values; emails stand for addresses of one domain and are cut
\* after the "@"
UsernameInputs == {<<"a", "b", "c">>, <<"a", "b", "d">>}
EmailInputs == {<<"a", "@">>, <<"A", "@">>, <<"b", "@">>}
\* an address without an "@", which no schema admits
BadEmail == <<"a">>
PhoneInputs == {Rep("1", PhoneMin), Rep("2", PhoneMin)}
\* passwords: both meet the pattern of signupSchema and loginSchema
Password == <<"P", "w", "0", "r", "d", "!", "a", "1">>
OtherPassword == <<"P", "w", "0", "r", "d", "!", "a", "2">>
PasswordInputs == {Password, OtherPassword}

SignupBodies ==
    [username : UsernameInputs, email : EmailInputs, phone : PhoneInputs,
     password : {Password}]

LoginBodies ==
    [email : EmailInputs \cup {BadEmail}, password : PasswordInputs]

\* z.string().email(): something before an "@", no white space
ZodEmail(e) ==
    /\ Len(e) >= 2
    /\ \E i \in 2..Len(e) : e[i] = "@"
    /\ \A i \in 1..Len(e) : ~IsSpace(e[i])

\* the password pattern of the auth schemas: 8 or more characters, with a
\* lowercase letter, an uppercase letter, a digit and a special character
ZodPassword(p) ==
    /\ Len(p) >= 8
    /\ \E i \in 1..Len(p) : p[i] \in {"a", "b", "c", "d", "r", "w"}
    /\ \E i \in 1..Len(p) : p[i] \in {"A", "B", "C", "P"}
    /\ \E i \in 1..Len(p) : p[i] \in {"0", "1", "2"}
    /\ \E i \in 1..Len(p) : p[i] \in {"!", "-"}

\* signupSchema: the body fields that fail
signupSchema(body) ==
    Failing(<< <<"username", Len(body.username) >= UsernameMin
                             /\ Len(body.username) <= UsernameMax>>,
               <<"email", ZodEmail(body.email)>>,
               <<"phone", Len(body.phone) >= PhoneMin
                          /\ Len(body.phone) <= PhoneMax>>,
               <<"password", ZodPassword(body.password)>> >>)

\* loginSchema
loginSchema(body) ==
    Failing(<< <<"email", ZodEmail(body.email)>>,
               <<"password", ZodPassword(body.password)>> >>)

\* bcrypt.hash and bcrypt.compare: the hash is not the password, and only
\* the password it was made from matches it
bcryptHash(password) == [bcrypt |-> password]
bcryptCompare(password, hash) == hash = [bcrypt |-> password]

\* a serialisation that keeps every field of the document
toJSONKeepAll(doc) == doc

\* the toJSON transform of userSchema deletes the password
toJSON(doc) == [f \in (DOMAIN doc) \ {"password"} |-> doc[f]]

\* a findOne that compares the address as it came in the request
FindUserByEmailRaw(email) == {u \in users : u.email = email}

\* UserModel.findOne({ email }): the query value passes the schema's
\* setters (lowercase, trim) as a stored value does
FindUserByEmail(email) == {u \in users : u.email = trim(toLowerCase(email))}

FindUserByPhone(phone) == {u \in users : u.phone = trim(phone)}

FindUserById(id) == {u \in users : u.id = id}

\* UserModel.create: setters, validation, the pre-save hook that hashes the
\* password, then the insert under the unique indexes of username, email
\* and phone. It throws when validation or an index rejects the document.
UserModelCreate(body) ==
    LET username == trim(body.username)
        email == trim(toLowerCase(body.email))
        phone == trim(body.phone)
        valid == /\ Len(username) >= UsernameMin /\ Len(username) <= UsernameMax
                 /\ ZodEmail(email)
                 /\ phone # <<>>
                 /\ Len(body.password) >= PasswordMinLength
        duplicate == \E u \in users :
                        \/ u.username = username
                        \/ u.email = email
                        \/ u.phone = phone
    IN  [threw |-> ~valid \/ duplicate,
         doc |-> [id |-> nextId + 1, username |-> username, email |-> email,
                  phone |-> phone, password |-> bcryptHash(body.password),
                  role |-> "user", isActive |-> TRUE]]

\* tokens: a signed payload, or a string that is no token
Jwt(userId, role, iat, sig) ==
    [kind |-> "jwt", userId |-> userId, role |-> role, iat |-> iat,
     exp |-> iat + JwtExpiresIn, sig |-> sig]

Garbage == [kind |-> "garbage", userId |-> 0, role |-> "", iat |-> 0,
            exp |-> 0, sig |-> ""]

\* generateToken: jwt.sign with the server's secret and expiresIn
generateToken(userId, role) == Jwt(userId, role, now, "JWT_SECRET")

\* a verification that checks the signature only
verifyTokenNoExpiry(token) ==
    IF token.kind # "jwt" \/ token.sig # "JWT_SECRET" THEN "JsonWebTokenError"
    ELSE "ok"

\* verifyToken: jwt.verify checks the signature, then the expiry
verifyToken(token) ==
    IF token.kind # "jwt" \/ token.sig # "JWT_SECRET" THEN "JsonWebTokenError"
    ELSE IF now >= token.exp THEN "TokenExpiredError"
    ELSE "ok"

\* the signup controller. Neither duplicate branch returns, so the code
\* after it runs on a response that was sent already.
signup(body) ==
    LET emailExists == FindUserByEmail(body.email)
        res1 == IF emailExists # Null
                THEN badRequest(NewRes, "Email already exists", <<"email">>)
                ELSE NewRes
        phoneExists == FindUserByPhone(body.phone)
        res2 == IF phoneExists # Null
                THEN badRequest(res1, "Phone number already exists", <<"phone">>)
                ELSE res1
        created == UserModelCreate(body)
        token == generateToken(created.doc.id, created.doc.role)
        res3 == success(res2, [user |-> toJSON(created.doc), token |-> token],
                        "User created successfully")
    IN  IF res2.threw \/ created.threw
        THEN [out |-> Catch(res2, "Internal server error"),
              created |-> Null, token |-> Null]
        ELSE IF res3.threw
        THEN [out |-> Catch(res3, "Internal server error"),
              created |-> Some(created.doc), token |-> Null]
        ELSE [out |-> Outcome(res3, FALSE, Null, FALSE),
              created |-> Some(created.doc), token |-> Some(token)]

\* the login controller
login(body) ==
    LET found == FindUserByEmail(body.email)
        user == Val(found)
        token == generateToken(user.id, user.role)
    IN  IF found = Null
        THEN [out |-> Outcome(badRequest(NewRes, "Invalid email or password",
                                         <<"email">>), FALSE, Null, FALSE),
              token |-> Null]
        ELSE IF ~bcryptCompare(body.password, user.password)
        THEN [out |-> Outcome(badRequest(NewRes, "Invalid email or password",
                                         <<"password">>), FALSE, Null, FALSE),
              token |-> Null]
        ELSE [out |-> Outcome(success(NewRes, [user |-> toJSON(user),
                                               token |-> token],
                                      "Login successful"), FALSE, Null, FALSE),
              token |-> Some(token)]

\* Authorization headers: none, another scheme, "Bearer " with nothing
\* after it, or "Bearer <token>"
NoHeader == [scheme |-> "none", token |-> Null]
Bearer(t) == [scheme |-> "Bearer", token |-> Some(t)]

\* the headers a client can send: a token it holds, or one it made up
AuthHeaders ==
    {NoHeader, [scheme |-> "Basic", token |-> Null],
     [scheme |-> "Bearer", token |-> Null], Bearer(Garbage)}
    \cup {Bearer(t) : t \in tokens}
    \cup {Bearer(Jwt(u.id, "admin", now, "forged")) : u \in users}

\* the authenticate middleware
authenticate(header) ==
    IF header.scheme # "Bearer"
    THEN Outcome(unauthorized(NewRes,
            "Authentication required. Please provide a valid token"),
            FALSE, Null, FALSE)
    ELSE IF header.token = Null
    THEN Outcome(unauthorized(NewRes, "Authentication token is missing"),
                 FALSE, Null, FALSE)
    ELSE LET decoded == Val(header.token)
             verdict == verifyToken(decoded)
             user == FindUserById(decoded.userId)
         IN  IF verdict = "TokenExpiredError"
             THEN Outcome(unauthorized(NewRes,
                     "Token has expired. Please login again"), FALSE, Null, FALSE)
             ELSE IF verdict = "JsonWebTokenError"
             THEN Outcome(unauthorized(NewRes,
                     "Invalid token. Please login again"), FALSE, Null, FALSE)
             ELSE IF user = Null
             THEN Outcome(unauthorized(NewRes,
                     "User not found. Please login again"), FALSE, Null, FALSE)
             ELSE IF ~Val(user).isActive
             THEN Outcome(forbidden(NewRes,
                     "Your account has been deactivated"), FALSE, Null, FALSE)
             ELSE Outcome(NewRes, TRUE, user, FALSE)

\* a client keeps the token a login sent it, or does not
Keep(token) ==
    {tokens} \cup
    (IF token # Null /\ Cardinality(tokens) < MaxTokens
     THEN {tokens \cup token}
     ELSE {})

AuthInit ==
    /\ users = {} /\ signedUp = {} /\ tokens = {} /\ now = 0
    /\ categories = {} /\ products = {} /\ nextId = 0
    /\ resp = NoResp
    /\ pure = [kind |-> "none"]
    /\ limits = NoLimits

\* the response is written out and the server takes the next request; the
\* handlers run one request at a time
Finish ==
    /\ resp # NoResp
    /\ resp' = NoResp
    /\ UNCHANGED <<authVars, nextId, catalogVars, pure, limits>>

\* POST /signup: validate(signupSchema), signup
PostSignup ==
    /\ resp = NoResp
    /\ \E body \in SignupBodies :
           LET v == validate(signupSchema(body))
               r == signup(body)
           IN  IF ~v.next
               THEN /\ resp' = Resp("signup", body, v, FALSE)
                    /\ UNCHANGED <<authVars, nextId>>
               ELSE /\ r.created # Null => nextId < MaxUsers
                    /\ resp' = Resp("signup", body, r.out, TRUE)
                    /\ users' = users \cup r.created
                    /\ nextId' = nextId + Cardinality(r.created)
                    /\ signedUp' = signedUp \cup
                          {[id |-> d.id, email |-> body.email,
                            password |-> body.password] : d \in r.created}
                    /\ tokens' = tokens
                    /\ now' = now
    /\ UNCHANGED <<catalogVars, pure, limits>>

\* POST /login: validate(loginSchema), login
PostLogin ==
    /\ resp = NoResp
    /\ \E body \in LoginBodies :
           LET v == validate(loginSchema(body))
               r == login(body)
           IN  IF ~v.next
               THEN /\ resp' = Resp("login", body, v, FALSE)
                    /\ tokens' = tokens
               ELSE /\ resp' = Resp("login", body, r.out, TRUE)
                    /\ tokens' \in Keep(r.token)
    /\ UNCHANGED <<users, signedUp, now, nextId, catalogVars, pure, limits>>

\* a request through the authenticate middleware
Authenticate ==
    /\ resp = NoResp
    /\ \E header \in AuthHeaders :
           resp' = Resp("authenticate", header, authenticate(header), FALSE)
    /\ UNCHANGED <<authVars, nextId, catalogVars, pure, limits>>

\* a day passes
Tick ==
    /\ resp = NoResp
    /\ now < MaxTime
    /\ now' = now + 1
    /\ UNCHANGED <<users, signedUp, tokens, nextId, resp, catalogVars, pure, limits>>

\* an account is disabled in the collection (isActive)
DeactivateUser ==
    /\ resp = NoResp
    /\ \E u \in users :
           /\ u.isActive
           /\ users' = (users \ {u}) \cup {[u EXCEPT !.isActive = FALSE]}
    /\ UNCHANGED <<signedUp, tokens, now, nextId, resp, catalogVars, pure, limits>>

\* a user document is removed from the collection
DeleteUser ==
    /\ resp = NoResp
    /\ \E u \in users : users' = users \ {u}
    /\ UNCHANGED <<signedUp, tokens, now, nextId, resp, catalogVars, pure, limits>>

AuthNext ==
    \/ PostSignup
    \/ PostLogin
    \/ Authenticate
    \/ Tick
    \/ DeactivateUser
    \/ DeleteUser
    \/ Finish

AuthSpec == AuthInit /\ [][AuthNext]_vars

-----------------------------------------------------------------------------
(* Categories and products: the schemas, the controllers and the routes.   *)

MaxDocs == 3         \* categories and products created
MaxStock == 1        \* largest stock in a request

CategoryNameMax == 100
ProductNameMax == 200

\* ids are ObjectIds, numbered as they are generated; 0 is an id string
\* that is no ObjectId, which mongoose cannot cast
IsObjectId(id) == id > 0
RequestIds == 0..MaxDocs

CategoryNameInputs == {<<"a">>, <<" ", "a">>, <<"B">>, <<" ">>, <<>>}
CategorySlugInputs == {<<"a">>, <<"A">>, <<"b">>}
ProductNameInputs == {<<"a">>, <<"a", " ">>, <<"A">>, <<"b">>}

CategoryBodies == [name : CategoryNameInputs, slug : CategorySlugInputs]

\* category requests whose name and slug the schema stores as they are
PlainCategoryBodies == {[name |-> <<"a">>, slug |-> <<"a">>],
                        [name |-> <<"B">>, slug |-> <<"b">>]}

CreateProductBodies ==
    [name : ProductNameInputs, stock : 0..MaxStock, category : RequestIds]

\* the body of an update: each field is undefined (Null) or has a value
Optional(S) == {Null} \cup {Some(v) : v \in S}

UpdateProductBodies ==
    [name : Optional(ProductNameInputs), stock : Optional(0..MaxStock),
     category : Optional(RequestIds)]

\* createCategorySchema
createCategorySchema(body) ==
    Failing(<< <<"name", Len(body.name) >= 1
                         /\ Len(body.name) <= CategoryNameMax>>,
               <<"slug", Len(body.slug) >= 1
                         /\ Len(body.slug) <= CategoryNameMax>> >>)

\* createProductSchema, the fields the model keeps
createProductSchema(body) ==
    Failing(<< <<"name", Len(body.name) >= 1
                         /\ Len(body.name) <= ProductNameMax>>,
               <<"stock", body.stock >= 0>> >>)

\* updateProductSchema
updateProductSchema(body) ==
    Failing(<< <<"name", body.name # Null =>
                            (Len(Val(body.name)) >= 1
                             /\ Len(Val(body.name)) <= ProductNameMax)>>,
               <<"stock", body.stock # Null => Val(body.stock) >= 0>> >>)

\* Model.findOne: the first match in insertion order, or null
FindOne(docs) ==
    IF docs = {} THEN Null
    ELSE Some(CHOOSE d \in docs : \A e \in docs : d.id <= e.id)

\* a findOne that compares the value as it came in the request
FindCategoryBySlugRaw(slug) == FindOne({c \in categories : c.slug = slug})

\* CategoryModel.findOne({ name }) and ({ slug }): the query value passes
\* the schema's setters (trim; lowercase and trim)
FindCategoryByName(name) ==
    FindOne({c \in categories : c.name = trim(name)})

FindCategoryBySlug(slug) ==
    FindOne({c \in categories : c.slug = trim(toLowerCase(slug))})

FindCategoryById(id) == {c \in categories : c.id = id}

\* CategoryModel.create: setters, validation, the pre-save hook, then the
\* insert under the unique indexes of name and slug
CategoryModelCreate(body) ==
    LET name == trim(body.name)
        slug == trim(toLowerCase(body.slug))
        valid == name # <<>> /\ Len(name) <= CategoryNameMax /\ slug # <<>>
        saved == categoryPreSaveSlug(name, slug)
        duplicate == \E c \in categories : c.name = name \/ c.slug = saved
    IN  [threw |-> ~valid \/ duplicate,
         doc |-> [id |-> nextId + 1, name |-> name, slug |-> saved]]

\* the createCategory controller
createCategory(body) ==
    LET created == CategoryModelCreate(body)
    IN  IF FindCategoryByName(body.name) # Null
        THEN [out |-> Outcome(badRequest(NewRes, "Category name already exists",
                                         <<"name">>), FALSE, Null, FALSE),
              created |-> Null]
        ELSE IF FindCategoryBySlug(body.slug) # Null
        THEN [out |-> Outcome(badRequest(NewRes, "Category slug already exists",
                                         <<"slug">>), FALSE, Null, FALSE),
              created |-> Null]
        ELSE IF created.threw
        THEN [out |-> Catch(NewRes, "Internal server error"), created |-> Null]
        ELSE [out |-> Outcome(success(NewRes, [category |-> created.doc],
                                      "Category created successfully"),
                              FALSE, Null, FALSE),
              created |-> Some(created.doc)]

\* ProductModel.findOne({ name })
FindProductByName(name) == FindOne({p \in products : p.name = trim(name)})

FindProductById(id) == {p \in products : p.id = id}

\* a pre-save hook that leaves inStock at the schema's default
productPreSaveDefaultInStock(doc) ==
    [doc EXCEPT !.slug = productPreSaveSlug(doc.name, doc.slug)]

\* productSchema.pre('save'): the slug when there is none, and inStock
productPreSave(doc) ==
    [doc EXCEPT !.slug = productPreSaveSlug(doc.name, doc.slug),
                !.inStock = doc.stock > 0]

\* an insert of a product that no unique index guards
ProductModelCreateNoIndex(fields) ==
    LET name == trim(fields.name)
        slug == trim(toLowerCase(fields.slug))
        valid == /\ name # <<>> /\ Len(name) <= ProductNameMax
                 /\ slug # <<>>
                 /\ fields.stock >= 0
                 /\ IsObjectId(fields.category)
        saved == productPreSave([id |-> nextId + 1, name |-> name,
                                 slug |-> slug, stock |-> fields.stock,
                                 category |-> fields.category,
                                 inStock |-> TRUE])
    IN  [threw |-> ~valid, doc |-> saved]

\* ProductModel.create: setters and defaults (inStock: true), validation,
\* the pre-save hook, then the insert under the unique index of slug
ProductModelCreate(fields) ==
    LET name == trim(fields.name)
        slug == trim(toLowerCase(fields.slug))
        valid == /\ name # <<>> /\ Len(name) <= ProductNameMax
                 /\ slug # <<>>
                 /\ fields.stock >= 0
                 /\ IsObjectId(fields.category)
        saved == productPreSave([id |-> nextId + 1, name |-> name,
                                 slug |-> slug, stock |-> fields.stock,
                                 category |-> fields.category,
                                 inStock |-> TRUE])
        duplicate == \E p \in products : p.slug = saved.slug
    IN  [threw |-> ~valid \/ duplicate, doc |-> saved]

\* the createProduct controller
createProduct(body) ==
    LET created == ProductModelCreate([name |-> body.name,
                                       slug |-> generateSlug(body.name),
                                       stock |-> body.stock,
                                       category |-> body.category])
    IN  IF ~IsObjectId(body.category)
        THEN [out |-> Catch(NewRes, "Internal server error"), created |-> Null]
        ELSE IF FindCategoryById(body.category) = Null
        THEN [out |-> Outcome(badRequest(NewRes, "Category not found",
                                         <<"category">>), FALSE, Null, FALSE),
              created |-> Null]
        ELSE IF FindProductByName(body.name) # Null
        THEN [out |-> Outcome(badRequest(NewRes, "Product name already exists",
                                         <<"name">>), FALSE, Null, FALSE),
              created |-> Null]
        ELSE IF created.threw
        THEN [out |-> Catch(NewRes, "Internal server error"), created |-> Null]
        ELSE [out |-> Outcome(success(NewRes, [product |-> created.doc],
                                      "Product created successfully"),
                              FALSE, Null, FALSE),
              created |-> Some(created.doc)]

\* an updateData object that never sets the slug
UpdateDataKeepSlug(body) ==
    [name |-> body.name, slug |-> Null, stock |-> body.stock,
     category |-> body.category]

\* the updateData object of updateProduct: the fields the body defines
UpdateData(body) ==
    [name |-> body.name,
     slug |-> IF body.name # Null THEN Some(generateSlug(Val(body.name)))
              ELSE Null,
     stock |-> body.stock,
     category |-> body.category]

\* ProductModel.findByIdAndUpdate(id, updateData, { new, runValidators }):
\* the defined fields pass the setters and their validators and replace the
\* stored ones; no save hook runs. It throws when a validator or the unique
\* index of slug rejects the update.
ProductFindByIdAndUpdate(product, data) ==
    LET name == IF data.name # Null THEN trim(Val(data.name)) ELSE product.name
        slug == IF data.slug # Null THEN trim(toLowerCase(Val(data.slug)))
                ELSE product.slug
        stock == IF data.stock # Null THEN Val(data.stock) ELSE product.stock
        category == IF data.category # Null THEN Val(data.category)
                    ELSE product.category
        valid == /\ name # <<>> /\ Len(name) <= ProductNameMax
                 /\ slug # <<>>
                 /\ stock >= 0
                 /\ IsObjectId(category)
        duplicate == \E p \in products : p.id # product.id /\ p.slug = slug
    IN  [threw |-> ~valid \/ duplicate,
         doc |-> [product EXCEPT !.name = name, !.slug = slug,
                                 !.stock = stock, !.category = category]]

\* the name check of updateProduct without the comparison of ids
NameTaken(id, found) == found # Null

\* updateProduct: the name belongs to another product
NameTakenByOther(id, found) == found # Null /\ Val(found).id # id

\* the updateProduct controller
updateProduct(id, body) ==
    LET found == FindProductById(id)
        product == Val(found)
        changesCategory == body.category # Null
                           /\ Val(body.category) # product.category
        changesName == body.name # Null /\ Val(body.name) # <<>>
                       /\ Val(body.name) # product.name
        updated == ProductFindByIdAndUpdate(product, UpdateData(body))
    IN  IF ~IsObjectId(id)
        THEN [out |-> Catch(NewRes, "Internal server error"), updated |-> Null]
        ELSE IF found = Null
        THEN [out |-> Outcome(badRequest(NewRes, "Product not found", <<"id">>),
                              FALSE, Null, FALSE),
              updated |-> Null]
        ELSE IF changesCategory /\ ~IsObjectId(Val(body.category))
        THEN [out |-> Catch(NewRes, "Internal server error"), updated |-> Null]
        ELSE IF changesCategory /\ FindCategoryById(Val(body.category)) = Null
        THEN [out |-> Outcome(badRequest(NewRes, "Category not found",
                                         <<"category">>), FALSE, Null, FALSE),
              updated |-> Null]
        ELSE IF changesName
                /\ NameTakenByOther(id, FindProductByName(Val(body.name)))
        THEN [out |-> Outcome(badRequest(NewRes, "Product name already exists",
                                         <<"name">>), FALSE, Null, FALSE),
              updated |-> Null]
        ELSE IF updated.threw
        THEN [out |-> Catch(NewRes, "Internal server error"), updated |-> Null]
        ELSE [out |-> Outcome(success(NewRes, [product |-> updated.doc],
                                      "Product updated successfully"),
                              FALSE, Null, FALSE),
              updated |-> Some(updated.doc)]

\* the Authorization headers of a client that holds no token
AnonymousHeaders == {NoHeader, Bearer(Garbage)}

Init ==
    /\ users = {} /\ signedUp = {} /\ tokens = {} /\ now = 0
    /\ categories = {} /\ products = {} /\ nextId = 0
    /\ resp = NoResp
    /\ pure = [kind |-> "none"]
    /\ limits = NoLimits

\* POST /categories: validate(createCategorySchema), createCategory
PostCategory(bodies) ==
    /\ resp = NoResp
    /\ \E body \in bodies :
           LET v == validate(createCategorySchema(body))
               r == createCategory(body)
           IN  IF ~v.next
               THEN /\ resp' = Resp("createCategory", [body |-> body], v, FALSE)
                    /\ UNCHANGED <<categories, nextId>>
               ELSE /\ r.created # Null => nextId < MaxDocs
                    /\ resp' = Resp("createCategory", [body |-> body], r.out, TRUE)
                    /\ categories' = categories \cup r.created
                    /\ nextId' = nextId + Cardinality(r.created)
    /\ UNCHANGED <<authVars, products, pure, limits>>

\* POST /products: validate(createProductSchema), createProduct
PostProduct ==
    /\ resp = NoResp
    /\ \E body \in CreateProductBodies :
           LET v == validate(createProductSchema(body))
               r == createProduct(body)
           IN  IF ~v.next
               THEN /\ resp' = Resp("createProduct", [body |-> body], v, FALSE)
                    /\ UNCHANGED <<products, nextId>>
               ELSE /\ r.created # Null => nextId < MaxDocs
                    /\ resp' = Resp("createProduct", [body |-> body], r.out, TRUE)
                    /\ products' = products \cup r.created
                    /\ nextId' = nextId + Cardinality(r.created)
    /\ UNCHANGED <<authVars, categories, pure, limits>>

\* PUT /products/:id: validate(updateProductSchema), updateProduct. The
\* route mounts no other middleware, so the Authorization header is not
\* read.
PutProduct ==
    /\ resp = NoResp
    /\ \E id \in RequestIds, header \in AnonymousHeaders,
          body \in UpdateProductBodies :
           LET v == validate(updateProductSchema(body))
               r == updateProduct(id, body)
               req == [id |-> id, authorization |-> header, body |-> body]
           IN  IF ~v.next
               THEN /\ resp' = Resp("updateProduct", req, v, FALSE)
                    /\ products' = products
               ELSE /\ resp' = Resp("updateProduct", req, r.out, TRUE)
                    /\ products' = {p \in products : p.id # id} \cup r.updated
                                   \cup (IF r.updated = Null
                                         THEN FindProductById(id) ELSE {})
    /\ UNCHANGED <<authVars, categories, nextId, pure, limits>>

\* the product routes, over categories with plain names
Next ==
    \/ PostCategory(PlainCategoryBodies)
    \/ PostProduct
    \/ PutProduct
    \/ Finish

Spec == Init /\ [][Next]_vars

\* the category routes
CategoryNext == PostCategory(CategoryBodies) \/ Finish

CategorySpec == Init /\ [][CategoryNext]_vars

-----------------------------------------------------------------------------
(* The slug derivation on every name up to MaxNameLen.                     *)

SlugAlphabet == {"a", "B", "1", "-", " ", "!"}

SlugNames == UNION {[1..n -> SlugAlphabet] : n \in 0..MaxNameLen}

SlugInit ==
    /\ pure \in {[kind |-> "slug", step |-> "input", name |-> n, slug |-> <<>>,
                  again |-> <<>>, productSlug |-> <<>>, categorySlug |-> <<>>]
                 : n \in SlugNames}
    /\ users = {} /\ signedUp = {} /\ tokens = {} /\ now = 0
    /\ categories = {} /\ products = {} /\ nextId = 0
    /\ resp = NoResp
    /\ limits = NoLimits

\* the controller derives the slug of a name
SlugDerive ==
    /\ pure.kind = "slug" /\ pure.step = "input"
    /\ pure' = [pure EXCEPT !.step = "derived", !.slug = generateSlug(pure.name)]
    /\ UNCHANGED <<authVars, catalogVars, nextId, resp, limits>>

\* the derived slug is given as a name again, and documents without a slug
\* are saved under the name
SlugRederive ==
    /\ pure.kind = "slug" /\ pure.step = "derived"
    /\ pure' = [pure EXCEPT !.step = "rederived",
                            !.again = generateSlug(pure.slug),
                            !.productSlug = productPreSaveSlug(pure.name, <<>>),
                            !.categorySlug = categoryPreSaveSlug(pure.name, <<>>)]
    /\ UNCHANGED <<authVars, catalogVars, nextId, resp, limits>>

SlugNext == SlugDerive \/ SlugRederive

SlugSpec == SlugInit /\ [][SlugNext]_vars

-----------------------------------------------------------------------------
(* ResponseUtil.paginated.                                                 *)

\* a page number n that is not null
Num(n) == Some(n)

\* a ceiling that rounds down
CeilFloor(a, b) == a \div b

\* Math.ceil(a / b) for a >= 0, b > 0
Ceil(a, b) == (a + b - 1) \div b

\* the meta object ResponseUtil.paginated builds
paginatedMeta(totalItems, currentPage, itemsPerPage) ==
    LET totalPages == Ceil(totalItems, itemsPerPage)
        hasNextPage == currentPage < totalPages
        hasPrevPage == currentPage > 1
    IN  [pagination |->
            [currentPage |-> currentPage,
             totalPages |-> totalPages,
             totalItems |-> totalItems,
             itemsPerPage |-> itemsPerPage,
             hasNextPage |-> hasNextPage,
             hasPrevPage |-> hasPrevPage,
             nextPage |-> IF hasNextPage THEN Num(currentPage + 1) ELSE Null,
             prevPage |-> IF hasPrevPage THEN Num(currentPage - 1) ELSE Null],
         total |-> totalItems,
         page |-> currentPage,
         limit |-> itemsPerPage,
         hasNext |-> hasNextPage,
         hasPrev |-> hasPrevPage]

\* page and limit as commonSchemas.pagination admits them (page >= 1,
\* limit >= 1), totalItems a count
PageInit ==
    /\ pure \in {[kind |-> "page", step |-> "input", totalItems |-> t,
                  currentPage |-> p, itemsPerPage |-> l, meta |-> Null]
                 : t \in 0..MaxItems, p \in 1..MaxPage, l \in 1..MaxLimit}
    /\ users = {} /\ signedUp = {} /\ tokens = {} /\ now = 0
    /\ categories = {} /\ products = {} /\ nextId = 0
    /\ resp = NoResp
    /\ limits = NoLimits

Paginate ==
    /\ pure.kind = "page" /\ pure.step = "input"
    /\ pure' = [pure EXCEPT !.step = "sent",
                  !.meta = paginatedMeta(pure.totalItems, pure.currentPage,
                                         pure.itemsPerPage)]
    /\ UNCHANGED <<authVars, catalogVars, nextId, resp, limits>>

PageNext == Paginate

PageSpec == PageInit /\ [][PageNext]_vars

-----------------------------------------------------------------------------
(* Slug derivation: claims.                                                *)

SlugChars == {"a", "b", "c", "d", "0", "1", "2", "-"}

\* C4: slug derivation is idempotent, generateSlug(generateSlug(n)) =
\* generateSlug(n) for every name n, and the pre-save derivations of Product
\* and Category give the slug generateSlug gives for the same name.
C4_SlugIdempotent ==
    (pure.kind = "slug" /\ pure.step = "rederived") =>
        /\ pure.again = pure.slug
        /\ pure.productSlug = pure.slug
        /\ pure.categorySlug = pure.slug

\* a name with characters outside [a-z0-9] at an edge and inside has been
\* derived and rederived
C4_Witness ==
    /\ pure.kind = "slug" /\ pure.step = "rederived"
    /\ pure.name = <<" ", "B", "!", "a">>
    /\ pure.slug = <<"b", "-", "a">>

\* the alphanumeric characters of s, in order
RECURSIVE AlnumOnly(_)
AlnumOnly(s) ==
    IF s = <<>> THEN <<>>
    ELSE IF IsAlnum(Head(s)) THEN <<Head(s)>> \o AlnumOnly(Tail(s))
    ELSE AlnumOnly(Tail(s))

\* the number of maximal runs of characters outside [a-z0-9] of s that have
\* an alphanumeric character on both sides
InnerRuns(s) ==
    Cardinality({i \in 2..Len(s) :
        /\ ~IsAlnum(s[i]) /\ IsAlnum(s[i-1])
        /\ \E j \in (i+1)..Len(s) : IsAlnum(s[j])})

Hyphens(s) == Cardinality({i \in 1..Len(s) : s[i] = "-"})

\* C5: the slug holds only a-z, 0-9 and hyphens, has no two hyphens in a
\* row, neither starts nor ends with a hyphen; it keeps the alphanumeric
\* characters of the lowercased name and has one hyphen for each run of
\* other characters between them.
C5_SlugShape ==
    (pure.kind = "slug" /\ pure.step # "input") =>
        LET s == pure.slug
            lower == toLowerCase(pure.name)
        IN  /\ \A i \in 1..Len(s) : s[i] \in SlugChars
            /\ \A i \in 1..(Len(s) - 1) : ~(s[i] = "-" /\ s[i+1] = "-")
            /\ s # <<>> => (s[1] # "-" /\ s[Len(s)] # "-")
            /\ AlnumOnly(s) = AlnumOnly(lower)
            /\ Hyphens(s) = InnerRuns(lower)

\* a name that starts and ends with a run and has a run of two inside
C5_Witness ==
    /\ pure.kind = "slug" /\ pure.step = "derived"
    /\ pure.name = <<"!", "a", " ", "-">>
    /\ pure.slug = <<"a">>

-----------------------------------------------------------------------------
(* Pagination: claims.                                                     *)

\* C6: totalPages is the ceiling of totalItems / itemsPerPage; hasNextPage
\* holds exactly when currentPage < totalPages, nextPage is currentPage + 1
\* then and null otherwise; prevPage is null exactly when currentPage = 1
\* and currentPage - 1 otherwise; hasNext / hasPrev repeat hasNextPage /
\* hasPrevPage.
C6_Pagination ==
    (pure.kind = "page" /\ pure.step = "sent") =>
        LET m == pure.meta
            p == m.pagination
            cur == pure.currentPage
        IN  /\ p.totalPages * pure.itemsPerPage >= pure.totalItems
            /\ (p.totalPages - 1) * pure.itemsPerPage < pure.totalItems
            /\ p.totalPages >= 0
            /\ p.hasNextPage <=> (cur < p.totalPages)
            /\ p.nextPage = (IF cur < p.totalPages THEN Num(cur + 1) ELSE Null)
            /\ (p.prevPage = Null) <=> (cur = 1)
            /\ cur # 1 => p.prevPage = Num(cur - 1)
            /\ m.hasNext = p.hasNextPage
            /\ m.hasPrev = p.hasPrevPage

\* a last page that is not full: 7 items, page 3 of 3 pages of 3
C6_Witness ==
    /\ pure.kind = "page" /\ pure.step = "sent"
    /\ pure.totalItems = 7 /\ pure.currentPage = 3 /\ pure.itemsPerPage = 3
    /\ pure.meta.pagination.totalPages = 3
    /\ pure.meta.pagination.nextPage = Null
    /\ pure.meta.pagination.prevPage = Num(2)

-----------------------------------------------------------------------------
(* Products: the stock flag, duplicate names, and the PUT route.           *)

\* a request of route op has just been handled by its controller
Handled(op) == resp.op = "none" /\ resp'.op = op /\ resp'.handler

\* C2: a product createProduct creates has inStock = FALSE when the stock
\* supplied is 0 and inStock = TRUE when it is greater than 0, in the
\* response and in the collection, although the schema's default is TRUE.
C2_CreateInStock ==
    (resp.op = "createProduct" /\ resp.res.status = OK) =>
        LET product == Val(resp.res.data).product
        IN  /\ product.inStock = (resp.req.body.stock > 0)
            /\ product \in products

\* a product has been created with stock 0 and is stored as out of stock
C2_Witness ==
    /\ resp.op = "createProduct" /\ resp.res.status = OK
    /\ resp.req.body.stock = 0
    /\ \E p \in products : p = Val(resp.res.data).product /\ ~p.inStock

\* C3: after any sequence of createProduct and updateProduct requests every
\* persisted product has inStock = (stock > 0).
C3_InStockInvariant == \A p \in products : p.inStock = (p.stock > 0)

\* an update has set the stock of a product that was in stock to 0
C3_Witness ==
    /\ resp.op = "updateProduct" /\ resp.res.status = OK
    /\ resp.req.body.stock = Some(0)
    /\ Val(resp.res.data).product.inStock

\* the category a createProduct or updateProduct request names is looked up
\* before the name: the id is malformed, is the id of no category, or
\* resolves (in an update also when it is absent or the product's own)
CategoryMalformed(category) == ~IsObjectId(category)
CategoryMissing(category) ==
    IsObjectId(category) /\ FindCategoryById(category) = Null

\* the response a request with a duplicate name gets, by its category
DuplicateNameResponse(res, category) ==
    IF category # Null /\ CategoryMalformed(Val(category))
    THEN res.status = INTERNAL_SERVER_ERROR
    ELSE IF category # Null /\ CategoryMissing(Val(category))
    THEN res.status = BAD_REQUEST /\ res.errors = <<"category">>
    ELSE res.status = BAD_REQUEST /\ res.errors = <<"name">>

\* the category an update has to look up: none when the body has none or
\* repeats the product's own
LookedUp(product, category) ==
    IF category # Null /\ Val(category) # product.category
    THEN category ELSE Null

\* C9: createProduct with the name of a persisted product, and updateProduct
\* of a persisted product that changes its name to the name of a different
\* persisted product, leave every persisted product unchanged and are
\* answered 400 with an error for field 'name' when the category of the
\* request resolves (or, in an update, is absent or unchanged), 400 with an
\* error for field 'category' when it is a well-formed id of no category,
\* and 500 when it is malformed. An updateProduct whose name is, once
\* trimmed, the product's own current name is not rejected as a duplicate.
C9_DuplicateName ==
    [][/\ Handled("createProduct")
          /\ FindProductByName(resp'.req.body.name) # Null
          => /\ DuplicateNameResponse(resp'.res,
                                      Some(resp'.req.body.category))
             /\ products' = products
       /\ Handled("updateProduct")
          => \A p \in FindProductById(resp'.req.id) :
               LET name == resp'.req.body.name
               IN  /\ (name # Null /\ trim(Val(name)) # p.name
                       /\ FindProductByName(Val(name)) # Null)
                      => /\ DuplicateNameResponse(resp'.res,
                               LookedUp(p, resp'.req.body.category))
                         /\ products' = products
                   /\ (name # Null /\ trim(Val(name)) = p.name)
                      => resp'.res.errors # <<"name">>]_vars

\* C9 as stated: a duplicate name is answered 400 with an error for field
\* 'name' whatever else the request holds.
C9_Original ==
    [][/\ Handled("createProduct")
          /\ FindProductByName(resp'.req.body.name) # Null
          => /\ resp'.res.status = BAD_REQUEST
             /\ resp'.res.errors = <<"name">>
             /\ products' = products
       /\ Handled("updateProduct")
          => \A p \in FindProductById(resp'.req.id) :
               LET name == resp'.req.body.name
               IN  /\ (name # Null /\ trim(Val(name)) # p.name
                       /\ FindProductByName(Val(name)) # Null)
                      => /\ resp'.res.status = BAD_REQUEST
                         /\ resp'.res.errors = <<"name">>
                         /\ products' = products
                   /\ (name # Null /\ trim(Val(name)) = p.name)
                      => resp'.res.errors # <<"name">>]_vars

\* an update that names another product's name was rejected for the name,
\* and both products are stored
C9_Witness ==
    /\ resp.op = "updateProduct" /\ resp.handler
    /\ resp.res.status = BAD_REQUEST /\ resp.res.errors = <<"name">>
    /\ \E p, q \in products :
           /\ p.id = resp.req.id /\ q.id # p.id
           /\ resp.req.body.name = Some(q.name)

\* the request carries a bearer token authenticate would accept
ValidBearer(header) == authenticate(header).next

\* C10: a PUT /products/:id without a valid bearer token is answered 401,
\* does not reach updateProduct and leaves the products unchanged.
C10_PutRequiresAuth ==
    [][(resp.op = "none" /\ resp'.op = "updateProduct"
        /\ ~ValidBearer(resp'.req.authorization))
       => /\ resp'.res.status = UNAUTHORIZED
          /\ ~resp'.handler
          /\ products' = products]_vars

\* a PUT without an Authorization header has changed a product
C10_Witness ==
    /\ resp.op = "updateProduct" /\ resp.handler
    /\ resp.req.authorization = NoHeader
    /\ resp.res.status = OK
    /\ resp.req.body.stock # Null

-----------------------------------------------------------------------------
(* Categories: createCategory and its duplicate checks.                    *)

\* the slug as categorySchema stores and looks it up
StoredSlug(slug) == trim(toLowerCase(slug))

-----------------------------------------------------------------------------
(* Users: signup, login, authenticate.                                     *)

\* the signed-up accounts a login body names with their own email and
\* password, and whose user is still in the collection
Credentials(body) ==
    {s \in signedUp : /\ s.email = body.email /\ s.password = body.password
                      /\ FindUserById(s.id) # Null}

\* a login response carries a token of the server for user id
TokenFor(res, id) ==
    /\ res.status = OK /\ res.success
    /\ LET token == Val(res.data).token
       IN  /\ token.kind = "jwt" /\ token.sig = "JWT_SECRET"
           /\ token.userId = id
           /\ Val(res.data).user.id = id

\* authenticate accepted the request for user id: next was called with the
\* user attached and nothing was sent
Accepted(r, id) ==
    /\ r.next /\ ~r.res.sent
    /\ r.user # Null /\ Val(r.user).id = id

\* C1: after a signup has succeeded, a login with the same email and
\* password succeeds and returns a token, and authenticate accepts a token a
\* login returned on a later request (calls next with that user attached)
\* as long as the user exists and is active and the token has not expired.
C1_SignupLoginAuthenticate ==
    [][/\ Handled("login")
          => \A s \in Credentials(resp'.req) : TokenFor(resp'.res, s.id)
       /\ (resp.op = "none" /\ resp'.op = "authenticate")
          => \A t \in tokens :
               (/\ resp'.req = Bearer(t)
                /\ \E u \in users : u.id = t.userId /\ u.isActive
                /\ now < t.exp)
               => Accepted(resp', t.userId)]_vars

\* C1 as stated: the token is accepted whenever the user exists and is
\* active.
C1_Original ==
    [][/\ Handled("login")
          => \A s \in Credentials(resp'.req) : TokenFor(resp'.res, s.id)
       /\ (resp.op = "none" /\ resp'.op = "authenticate")
          => \A t \in tokens :
               (/\ resp'.req = Bearer(t)
                /\ \E u \in users : u.id = t.userId /\ u.isActive)
               => Accepted(resp', t.userId)]_vars

\* a token a login returned for a signed-up user was accepted on a later day
C1_Witness ==
    /\ resp.op = "authenticate" /\ resp.next
    /\ \E t \in tokens :
           /\ resp.req = Bearer(t)
           /\ t.iat < now
           /\ \E s \in signedUp : s.id = t.userId
           /\ resp.user = FindUserById(t.userId)

\* the unique fields of a signup body that a persisted user holds already
DuplicatedFields(body) ==
    {f \in {"username", "email", "phone"} :
        \E u \in users :
            \/ f = "username" /\ u.username = trim(body.username)
            \/ f = "email" /\ u.email = trim(toLowerCase(body.email))
            \/ f = "phone" /\ u.phone = trim(body.phone)}

\* C7: a signup whose email, phone or username is that of a persisted user
\* is answered 400 with errors that name a duplicated field, and the
\* persisted users are unchanged.
C7_DuplicateSignup ==
    [][(Handled("signup") /\ DuplicatedFields(resp'.req) # {})
       => /\ resp'.res.status = BAD_REQUEST
          /\ resp'.res.errors # <<>>
          /\ \A i \in 1..Len(resp'.res.errors) :
                 resp'.res.errors[i] \in DuplicatedFields(resp'.req)
          /\ users' = users]_vars

\* a signup with the username of a persisted user and a new email and phone
\* was answered 500
C7_Witness ==
    /\ resp.op = "signup" /\ resp.handler
    /\ resp.res.status = INTERNAL_SERVER_ERROR
    /\ \E u \in users :
           /\ u.username = resp.req.username
           /\ u.email # trim(toLowerCase(resp.req.email))
           /\ u.phone # resp.req.phone

-----------------------------------------------------------------------------
(* The rate-limit policies under load, and the login route behind the      *)
(* limiter the application mounts.                                         *)

\* one policy carries the load of address ip1; ip2 and one other policy see
\* a few requests beside it
RateInit ==
    /\ pure \in UNION {{[kind |-> "limit", policy |-> p, other |-> q,
                          rejected |-> FALSE] : q \in Policies \ {p}}
                        : p \in Policies}
    /\ users = {} /\ signedUp = {} /\ tokens = {} /\ now = 0
    /\ categories = {} /\ products = {} /\ nextId = 0
    /\ resp = NoResp
    /\ limits = NoLimits

\* a request of address ip comes to the middleware of a policy
Limit ==
    /\ resp = NoResp
    /\ pure.kind = "limit"
    /\ \E key \in {<<pure.policy, "ip1">>, <<pure.policy, "ip2">>,
                   <<pure.other, "ip1">>} :
           LET policy == key[1]
               ip == key[2]
               r == rateLimit(policy, ip)
               loaded == key = <<pure.policy, "ip1">>
           IN  /\ limits[policy][ip].totalHits <
                      (IF loaded THEN Max(policy) + MaxExcess ELSE MaxOtherHits)
               /\ resp' = Resp("rateLimit", [policy |-> policy, ip |-> ip],
                               r.out, FALSE)
               /\ limits' = r.limits
               /\ pure' = [pure EXCEPT !.rejected =
                              @ \/ (loaded /\ ~r.out.next)]
    /\ UNCHANGED <<authVars, catalogVars, nextId>>

\* the window of some keys of a policy elapses
WindowElapses(policies) ==
    /\ resp = NoResp
    /\ \E policy \in policies, ips \in (SUBSET Addresses) \ {{}} :
           /\ \E ip \in ips : limits[policy][ip].totalHits > 0
           /\ limits' = ResetKeys(policy, ips)
    /\ UNCHANGED <<authVars, catalogVars, nextId, resp, pure>>

RateNext ==
    \/ Limit
    \/ WindowElapses({pure.policy, pure.other})
    \/ Finish

RateSpec == RateInit /\ [][RateNext]_vars

\* a user that signed up in an earlier window
EarlierUser ==
    [id |-> 1, username |-> <<"a", "b", "c">>, email |-> <<"a", "@">>,
     phone |-> Rep("1", PhoneMin), password |-> bcryptHash(Password),
     role |-> "user", isActive |-> TRUE]

LoginRateInit ==
    /\ users = {EarlierUser}
    /\ signedUp = {[id |-> 1, email |-> <<"a", "@">>, password |-> Password]}
    /\ tokens = {} /\ now = 0
    /\ categories = {} /\ products = {} /\ nextId = 1
    /\ resp = NoResp
    /\ pure = [kind |-> "none"]
    /\ limits = NoLimits

\* POST /login as the application serves it: rateLimitConfig.general, then
\* validate(loginSchema), then login
LoginRoute ==
    /\ resp = NoResp
    /\ \E ip \in Addresses, body \in LoginBodies :
           LET req == [ip |-> ip, body |-> body]
               g == rateLimit("general", ip)
               v == validate(loginSchema(body))
               r == login(body)
           IN  /\ limits["general"][ip].totalHits <
                      (IF ip = "ip1" THEN GeneralMax + MaxExcess
                       ELSE MaxOtherHits)
               /\ limits' = g.limits
               /\ resp' = IF ~g.out.next
                          THEN Resp("loginRoute", req, g.out, FALSE)
                          ELSE IF ~v.next
                          THEN Resp("loginRoute", req, v, FALSE)
                          ELSE Resp("loginRoute", req, r.out, TRUE)
    /\ UNCHANGED <<authVars, catalogVars, nextId, pure>>

LoginRateNext ==
    \/ LoginRoute
    \/ WindowElapses({"general"})
    \/ Finish

LoginRateSpec == LoginRateInit /\ [][LoginRateNext]_vars

\* C11: of the login requests one address sends within a window, the first
\* five reach the login route's handlers and the sixth is answered 429
\* without reaching the handler.
C11_SixthLoginLimited ==
    [][(resp.op = "none" /\ resp'.op = "loginRoute")
       => LET earlier == limits["general"][resp'.req.ip].totalHits
          IN  IF earlier < AuthMax
              THEN resp'.res.status # TOO_MANY_REQUESTS
              ELSE /\ resp'.res.status = TOO_MANY_REQUESTS
                   /\ ~resp'.handler]_vars

\* the sixth login of an address within a window has reached the handler
C11_Witness ==
    /\ resp.op = "loginRoute" /\ resp.handler
    /\ limits["general"][resp.req.ip].totalHits = AuthMax + 1

\* C17: each policy counts the requests of each address on its own. A
\* request passes when fewer than max requests of its address came to the
\* policy in the current window, so at most max pass within a window, and
\* is answered 429 without next otherwise; it leaves the counters of other
\* addresses and of other policies as they are; once the window has elapsed
\* the count starts again and the address passes.
C17_RateLimits ==
    [][(resp.op = "none" /\ resp'.op = "rateLimit")
       => LET policy == resp'.req.policy
              ip == resp'.req.ip
              earlier == limits[policy][ip].totalHits
          IN  /\ earlier < Max(policy)
                 => resp'.next /\ ~resp'.res.sent
              /\ earlier >= Max(policy)
                 => /\ ~resp'.next
                    /\ resp'.res.status = TOO_MANY_REQUESTS
                    /\ resp'.res.message = LimitMessage(policy)
              /\ limits'[policy][ip].passed <= Max(policy)
              /\ \A q \in Policies, j \in Addresses :
                     <<q, j>> # <<policy, ip>>
                     => limits'[q][j] = limits[q][j]]_vars

\* an address that was answered 429 by a policy passes it again in a later
\* window, while the other counters hold hits of their own
C17_Witness ==
    /\ pure.kind = "limit" /\ pure.rejected
    /\ resp.op = "rateLimit" /\ resp.next
    /\ resp.req = [policy |-> pure.policy, ip |-> "ip1"]
    /\ limits[pure.policy]["ip2"].totalHits > 0
    /\ limits[pure.other]["ip1"].totalHits > 0

-----------------------------------------------------------------------------
(* validate(schema) over the four sections of a request.                   *)

\* the sections in the order validate takes them
Sections == <<"body", "query", "params", "headers">>

\* each section's schema: an object that requires the keys a and b and
\* strips every other key
SchemaKeys == <<"a", "b">>
RequestKeys == {"a", "b", "x"}

\* a section of a request: the keys it holds
SectionValues == SUBSET RequestKeys

\* the keys of ks, in order, that value lacks
RECURSIVE Missing(_, _)
Missing(ks, value) ==
    IF ks = <<>> THEN <<>>
    ELSE (IF Head(ks) \in value THEN <<>> ELSE <<Head(ks)>>)
         \o Missing(Tail(ks), value)

\* schema.safeParse(value): success with the parsed data, or the issues
safeParse(value) ==
    [success |-> Missing(SchemaKeys, value) = <<>>,
     data |-> {k \in value : \E n \in 1..Len(SchemaKeys) : SchemaKeys[n] = k},
     issues |-> Missing(SchemaKeys, value)]

\* formatZodErrors: the field of each issue, with the section as a prefix
\* except for the body
formatZodErrors(issues, prefix) ==
    [n \in 1..Len(issues) |->
        IF prefix = "body" THEN issues[n] ELSE prefix \o "." \o issues[n]]

\* the errors validate has collected after the first n sections
RECURSIVE CollectErrors(_, _, _)
CollectErrors(options, req, n) ==
    IF n = 0 THEN <<>>
    ELSE LET section == Sections[n]
             result == safeParse(req[section])
         IN  CollectErrors(options, req, n - 1)
             \o (IF section \in options /\ ~result.success
                 THEN formatZodErrors(result.issues, section) ELSE <<>>)

\* the request after validate has replaced the sections among the first n
\* that passed
Replaced(options, req, n) ==
    [section \in DOMAIN req |->
        IF /\ section \in options
           /\ \E m \in 1..n : Sections[m] = section
           /\ safeParse(req[section]).success
        THEN safeParse(req[section]).data
        ELSE req[section]]

\* the validate middleware with a schema for each section in options.
\* queryReadOnly: req.query has a getter only (express 5), so the
\* assignment of the parsed query throws and the catch block answers;
\* otherwise (express 4) it is an own property and is replaced.
validateSections(options, req, queryReadOnly) ==
    LET errors == CollectErrors(options, req, Len(Sections))
        throws == /\ queryReadOnly /\ "query" \in options
                  /\ safeParse(req.query).success
    IN  IF throws
        THEN [out |-> Outcome(internalError(NewRes,
                                  "Validation processing failed"),
                              FALSE, Null, FALSE),
              req |-> Replaced(options, req, 1)]
        ELSE IF errors # <<>>
        THEN [out |-> Outcome(validationError(NewRes, errors),
                              FALSE, Null, FALSE),
              req |-> Replaced(options, req, Len(Sections))]
        ELSE [out |-> Outcome(NewRes, TRUE, Null, FALSE),
              req |-> Replaced(options, req, Len(Sections))]

ValidateInit ==
    /\ pure \in {[kind |-> "validate", step |-> "input", options |-> o,
                  req |-> r, queryReadOnly |-> g,
                  out |-> Outcome(NewRes, FALSE, Null, FALSE), after |-> r]
                 : o \in SUBSET {"body", "query", "params", "headers"},
                   r \in [body : SectionValues, query : SectionValues,
                          params : SectionValues, headers : SectionValues],
                   g \in BOOLEAN}
    /\ users = {} /\ signedUp = {} /\ tokens = {} /\ now = 0
    /\ categories = {} /\ products = {} /\ nextId = 0
    /\ resp = NoResp
    /\ limits = NoLimits

\* the request passes through validate
Validate ==
    /\ pure.kind = "validate" /\ pure.step = "input"
    /\ LET r == validateSections(pure.options, pure.req, pure.queryReadOnly)
       IN  pure' = [pure EXCEPT !.step = "done", !.out = r.out,
                                !.after = r.req]
    /\ UNCHANGED <<authVars, catalogVars, nextId, resp, limits>>

ValidateNext == Validate

ValidateSpec == ValidateInit /\ [][ValidateNext]_vars

\* the sections with a schema that the request fails
FailingSections(options, req) ==
    {section \in options : ~safeParse(req[section]).success}

\* C12: when a section fails its schema validate sends one 422 with the
\* errors of every failing section and does not call next; when every
\* section with a schema passes it calls next, sends nothing, and each such
\* section of the request is its parsed value.
C12_Validate ==
    (pure.kind = "validate" /\ pure.step = "done") =>
        IF FailingSections(pure.options, pure.req) # {}
        THEN /\ pure.out.res.sent /\ ~pure.out.res.threw
             /\ pure.out.res.status = UNPROCESSABLE_ENTITY
             /\ pure.out.res.errors =
                    CollectErrors(pure.options, pure.req, Len(Sections))
             /\ ~pure.out.next
        ELSE /\ pure.out.next /\ ~pure.out.res.sent
             /\ \A section \in pure.options :
                    pure.after[section] = safeParse(pure.req[section]).data

\* a request whose query passes its schema was answered 500
C12_Witness ==
    /\ pure.kind = "validate" /\ pure.step = "done"
    /\ pure.options = {"query"}
    /\ safeParse(pure.req.query).success
    /\ pure.out.res.status = INTERNAL_SERVER_ERROR
    /\ ~pure.out.next

-----------------------------------------------------------------------------
(* The response envelope, over the category routes and GET /health.        *)

\* the GET /health handler: res.status(200).json of a body written in place
health ==
    Outcome(Json(NewRes, OK,
                 [success |-> TRUE, message |-> "E-commerce Backend is running",
                  data |-> Null, errors |-> <<>>,
                  keys |-> {"success", "message", "version", "timestamp"}]),
            FALSE, Null, FALSE)

GetHealth ==
    /\ resp = NoResp
    /\ resp' = Resp("health", Null, health, TRUE)
    /\ UNCHANGED <<authVars, catalogVars, nextId, pure, limits>>

EnvelopeNext ==
    \/ PostCategory(CategoryBodies)
    \/ GetHealth
    \/ Finish

EnvelopeSpec == Init /\ [][EnvelopeNext]_vars

\* C13: every response sent has the envelope: below status 400 success is
\* true and the body carries message, data and timestamp; from 400 on
\* success is false, data is null and the body carries an errors list,
\* message and timestamp.
C13_Envelope ==
    resp.res.sent =>
        IF resp.res.status < BAD_REQUEST
        THEN /\ resp.res.success
             /\ {"success", "message", "data", "timestamp"}
                    \subseteq resp.res.keys
        ELSE /\ ~resp.res.success
             /\ resp.res.data = Null
             /\ {"success", "message", "data", "errors", "timestamp"}
                    \subseteq resp.res.keys

\* GET /health was answered 200 with a body that has no data member
C13_Witness ==
    /\ resp.op = "health" /\ resp.res.sent
    /\ resp.res.status = OK /\ resp.res.success
    /\ "data" \notin resp.res.keys

-----------------------------------------------------------------------------
(* The authenticate middleware, case by case.                              *)

\* the header is 'Bearer <token>' with a token the server signed
SignedBearer(header) ==
    /\ header.scheme = "Bearer" /\ header.token # Null
    /\ Val(header.token).kind = "jwt"
    /\ Val(header.token).sig = "JWT_SECRET"

\* the token of a signed bearer header is past its expiry
Expired(header) == now >= Val(header.token).exp

\* the persisted users the token of the header names
Holder(header) == {u \in users : u.id = Val(header.token).userId}

\* the middleware sent one response of this status and did not call next
Rejected(r, status) ==
    /\ r.res.sent /\ ~r.res.threw /\ ~r.res.success
    /\ r.res.status = status
    /\ ~r.next /\ r.user = Null

\* C14: authenticate calls next, with the persisted user attached and no
\* response sent, exactly when the header is 'Bearer <token>', the token
\* verifies (signed by the server, not expired) and its userId is that of a
\* persisted user with isActive = TRUE. Otherwise it sends one response
\* and does not call next: 401 without a Bearer header or token, 401 for a
\* token that is malformed or wrongly signed, 401 with another message for
\* an expired token, 401 when no user has the id, 403 when the user is
\* deactivated.
C14_Authenticate ==
    [][(resp.op = "none" /\ resp'.op = "authenticate")
       => LET header == resp'.req
              r == resp'
          IN  IF ~SignedBearer(header)
              THEN /\ Rejected(r, UNAUTHORIZED)
                   /\ r.res.message # "Token has expired. Please login again"
              ELSE IF Expired(header)
              THEN /\ Rejected(r, UNAUTHORIZED)
                   /\ r.res.message = "Token has expired. Please login again"
              ELSE IF Holder(header) = {}
              THEN Rejected(r, UNAUTHORIZED)
              ELSE IF \E u \in Holder(header) : ~u.isActive
              THEN Rejected(r, FORBIDDEN)
              ELSE /\ r.next /\ ~r.res.sent
                   /\ r.user = Holder(header)]_vars

\* a kept token of a user that was deactivated since was answered 403
C14_Witness ==
    /\ resp.op = "authenticate"
    /\ resp.res.status = FORBIDDEN /\ ~resp.next
    /\ \E t \in tokens :
           /\ resp.req = Bearer(t)
           /\ \E u \in users : u.id = t.userId /\ ~u.isActive

-----------------------------------------------------------------------------
(* requireRole and requireOwnership.                                       *)

Roles == {"admin", "user"}

\* req.user: nothing, or the user authenticate attached
AttachedUsers == {Null} \cup {Some([id |-> n, role |-> r]) : n \in 1..2, r \in Roles}

\* the value of userIdField in a section: absent, or an id; 0 is a value
\* that is falsy in JavaScript (an empty string)
OwnerValues == {Null} \cup {Some(n) : n \in 0..2}

\* req.body is an object, or undefined where the body parser leaves it so
\* for a request without a body (express 5)
BodyValues ==
    {[defined |-> TRUE, owner |-> o] : o \in OwnerValues}
    \cup {[defined |-> FALSE, owner |-> Null]}

\* the default error handler of express answers an exception a middleware
\* throws: 500 with a body that is no JSON envelope
finalhandler(res) ==
    [res EXCEPT !.sent = TRUE, !.status = INTERNAL_SERVER_ERROR]

\* a || b on optional values: a when it is truthy, else b
OrElse(a, b) == IF a # Null /\ Val(a) # 0 THEN a ELSE b

\* a role gate that passes every attached user
requireRoleAnyUser(allowedRoles, user) ==
    IF user = Null
    THEN Outcome(unauthorized(NewRes, "Authentication required"),
                 FALSE, user, FALSE)
    ELSE Outcome(NewRes, TRUE, user, FALSE)

\* requireRole(...allowedRoles) on a request with req.user = user
requireRole(allowedRoles, user) ==
    IF user = Null
    THEN Outcome(unauthorized(NewRes, "Authentication required"),
                 FALSE, user, FALSE)
    ELSE IF Val(user).role \notin allowedRoles
    THEN Outcome(forbidden(NewRes,
                     "You do not have permission to access this resource"),
                 FALSE, user, FALSE)
    ELSE Outcome(NewRes, TRUE, user, FALSE)

\* requireOwnership(userIdField) on a request with req.user = user and the
\* field's value in params, body and query. Reading the field of an
\* undefined body throws, and nothing in the middleware catches it.
requireOwnership(user, params, body, query) ==
    LET resourceOwnerId ==
            OrElse(params, OrElse(body.owner, query))
        readsBody == params = Null \/ Val(params) = 0
    IN  IF user = Null
        THEN Outcome(unauthorized(NewRes, "Authentication required"),
                     FALSE, user, FALSE)
        ELSE IF Val(user).role = "admin"
        THEN Outcome(NewRes, TRUE, user, FALSE)
        ELSE IF readsBody /\ ~body.defined
        THEN Outcome(finalhandler(NewRes), FALSE, user, TRUE)
        ELSE IF resourceOwnerId = Null \/ Val(resourceOwnerId) = 0
        THEN Outcome(badRequest(NewRes,
                         "Resource owner identification is missing", <<>>),
                     FALSE, user, FALSE)
        ELSE IF Val(user).id # Val(resourceOwnerId)
        THEN Outcome(forbidden(NewRes,
                         "You can only access your own resources"),
                     FALSE, user, FALSE)
        ELSE Outcome(NewRes, TRUE, user, FALSE)

AccessInit ==
    /\ pure \in {[kind |-> "access", step |-> "input", user |-> u,
                  allowedRoles |-> a, params |-> p, body |-> b, query |-> q,
                  out |-> Outcome(NewRes, FALSE, Null, FALSE)]
                 : u \in AttachedUsers, a \in SUBSET Roles,
                   p \in OwnerValues, b \in BodyValues, q \in OwnerValues}
    /\ users = {} /\ signedUp = {} /\ tokens = {} /\ now = 0
    /\ categories = {} /\ products = {} /\ nextId = 0
    /\ resp = NoResp
    /\ limits = NoLimits

\* the request comes to requireRole(...allowedRoles)
RequireRole ==
    /\ pure.kind = "access" /\ pure.step = "input"
    /\ pure' = [pure EXCEPT !.step = "role",
                            !.out = requireRole(pure.allowedRoles, pure.user)]
    /\ UNCHANGED <<authVars, catalogVars, nextId, resp, limits>>

\* the request comes to requireOwnership(userIdField)
RequireOwnership ==
    /\ pure.kind = "access" /\ pure.step = "input"
    /\ pure' = [pure EXCEPT !.step = "ownership",
                            !.out = requireOwnership(pure.user, pure.params,
                                                     pure.body, pure.query)]
    /\ UNCHANGED <<authVars, catalogVars, nextId, resp, limits>>

AccessNext == RequireRole \/ RequireOwnership

AccessSpec == AccessInit /\ [][AccessNext]_vars

\* C15: requireRole calls next exactly when a user is attached whose role
\* is in allowedRoles; it answers 401 when no user is attached and 403 when
\* the user's role is not allowed, without calling next.
C15_RequireRole ==
    (pure.kind = "access" /\ pure.step = "role") =>
        /\ pure.out.next <=> (pure.user # Null
                              /\ Val(pure.user).role \in pure.allowedRoles)
        /\ pure.out.next => ~pure.out.res.sent
        /\ pure.user = Null => Rejected(pure.out, UNAUTHORIZED)
        /\ (pure.user # Null /\ Val(pure.user).role \notin pure.allowedRoles)
           => /\ pure.out.res.sent /\ pure.out.res.status = FORBIDDEN
              /\ ~pure.out.next

\* a user whose role is not among the allowed ones was answered 403
C15_Witness ==
    /\ pure.kind = "access" /\ pure.step = "role"
    /\ pure.user = Some([id |-> 1, role |-> "user"])
    /\ pure.allowedRoles = {"admin"}
    /\ pure.out.res.status = FORBIDDEN /\ ~pure.out.next

\* the owner id by the precedence params, body, query: the value of the
\* first section that holds the field
ChosenOwner(params, body, query) ==
    IF params # Null THEN params
    ELSE IF body.owner # Null THEN body.owner
    ELSE query

\* C16: requireOwnership answers 401 with no user attached and lets an
\* admin pass; for another user it takes the owner id from params, else
\* body, else query, answers 400 when no section holds it, 403 when it
\* differs from the user's id, and calls next only when it is the user's id.
C16_RequireOwnership ==
    (pure.kind = "access" /\ pure.step = "ownership") =>
        LET owner == ChosenOwner(pure.params, pure.body, pure.query)
            out == pure.out
        IN  IF pure.user = Null
            THEN out.res.sent /\ out.res.status = UNAUTHORIZED /\ ~out.next
            ELSE IF Val(pure.user).role = "admin"
            THEN out.next /\ ~out.res.sent
            ELSE IF owner = Null
            THEN out.res.sent /\ out.res.status = BAD_REQUEST /\ ~out.next
            ELSE IF Val(owner) # Val(pure.user).id
            THEN out.res.sent /\ out.res.status = FORBIDDEN /\ ~out.next
            ELSE out.next /\ ~out.res.sent

\* a user whose own id is in the query of a request without a body got an
\* exception instead of a pass
C16_Witness ==
    /\ pure.kind = "access" /\ pure.step = "ownership"
    /\ pure.user = Some([id |-> 1, role |-> "user"])
    /\ pure.params = Null /\ ~pure.body.defined /\ pure.query = Some(1)
    /\ pure.out.unhandled /\ ~pure.out.next

-----------------------------------------------------------------------------
(* Exceptions in the controllers.                                          *)

\* C18: when a persistence call of a controller throws (here the insert of
\* signup, which a unique index or the schema's validation rejects), the
\* request ends with a 500 response that carries the generic message only,
\* nothing is left uncaught, and no document is written.
C18_ControllerErrors ==
    [][(Handled("signup") /\ UserModelCreate(resp'.req).threw)
       => /\ resp'.res.status = INTERNAL_SERVER_ERROR
          /\ resp'.res.message = "Internal server error"
          /\ resp'.res.data = Null /\ resp'.res.errors = <<>>
          /\ ~resp'.unhandled
          /\ users' = users]_vars

\* a signup whose insert threw after the 400 of a duplicate email: the 400
\* stays, and the exception of the catch block is left uncaught
C18_Witness ==
    /\ resp.op = "signup" /\ resp.handler
    /\ resp.res.status = BAD_REQUEST
    /\ resp.res.errors = <<"email">>
    /\ resp.unhandled

-----------------------------------------------------------------------------
(* Passwords in the responses of signup and login.                         *)

\* the members of a serialised user that are text, and the members that
\* are not: the hash is a value of neither kind
TextFields == {"username", "email", "phone"}
OtherFields == {"id", "role", "isActive"}

\* C19: no response of signup or login carries a password: the body holds
\* a user and a token only, the user has no password member (the only
\* member that holds the hash) and no member besides its text, id, role and
\* active flag, and no text member is the password that was submitted.
C19_NoPasswordInResponse ==
    (resp.op \in {"signup", "login"} /\ resp.res.data # Null) =>
        LET data == Val(resp.res.data)
        IN  /\ DOMAIN data = {"user", "token"}
            /\ "password" \notin DOMAIN data.user
            /\ DOMAIN data.user \subseteq TextFields \cup OtherFields
            /\ \A f \in TextFields \cap DOMAIN data.user :
                   data.user[f] # resp.req.password
            /\ "password" \notin DOMAIN data.token

\* a login was answered with the user whose stored hash it had loaded
C19_Witness ==
    /\ resp.op = "login" /\ resp.handler
    /\ resp.res.status = OK /\ resp.res.data # Null
    /\ \E u \in users :
           /\ u.id = Val(resp.res.data).user.id
           /\ u.password = bcryptHash(resp.req.password)

-----------------------------------------------------------------------------
(* GET /products: the filter of getProducts.                               *)

MaxPrice == 2
MaxProducts == 2

\* the products of this specification carry the fields the filter reads
FilterSizes == {{"s"}, {"m", "l"}}
FilterProducts(id) ==
    [id : {id}, category : 1..2, price : 1..MaxPrice, size : FilterSizes,
     inStock : BOOLEAN]

\* query parameters as the query parser hands them over: absent (Null) or
\* a string. categories is a comma-separated list of ids (0 is a string
\* that is no ObjectId), sizes a comma-separated list of sizes, a price a
\* text; the empty list and the empty text are the empty string.
CategoriesParams == {Null, Some(<<>>), Some(<<1>>), Some(<<1, 2>>), Some(<<0>>)}
PriceParams == {Null, Some(<<"1">>), Some(<<"2">>), Some(<<"a">>)}
SizesParams == {Null, Some(<<"s">>), Some(<<"m", "xl">>)}
InStockParams == {Null, Some("true"), Some("false")}
ProductQueries ==
    [categories : CategoriesParams, minPrice : PriceParams,
     maxPrice : PriceParams, sizes : SizesParams, inStock : InStockParams]

Digits == <<"0", "1", "2", "3", "4", "5", "6", "7", "8", "9">>
IsDigit(c) == \E d \in 1..10 : Digits[d] = c
DigitValue(c) == (CHOOSE d \in 1..10 : Digits[d] = c) - 1

RECURSIVE Decimal(_)
Decimal(text) ==
    IF text = <<>> THEN 0
    ELSE 10 * Decimal(SubSeq(text, 1, Len(text) - 1))
         + DigitValue(text[Len(text)])

\* Number(text) for a text of digits or letters: the empty string is 0, a
\* text that is no numeral is NaN (Null here)
Number(text) ==
    IF \A k \in 1..Len(text) : IsDigit(text[k])
    THEN Some(Decimal(text))
    ELSE Null

\* the elements of a list
Elements(list) == {list[k] : k \in 1..Len(list)}

\* a string is truthy unless it is empty
Truthy(param) == param # Null /\ Val(param) # <<>>

\* sort({ createdAt: -1 }): the newest first; ids are numbered as the
\* documents are created
RECURSIVE SortNewestFirst(_)
SortNewestFirst(docs) ==
    IF docs = {} THEN <<>>
    ELSE LET newest == CHOOSE d \in docs : \A e \in docs : e.id <= d.id
         IN  <<newest>> \o SortNewestFirst(docs \ {newest})

\* populate('category'): the category document in place of its id, or null
populate(product) ==
    [product EXCEPT !.category = FindCategoryById(product.category)]

\* the filter object getProducts builds, as the documents it matches
Matches(p, query) ==
    /\ Truthy(query.categories)
       => p.category \in Elements(Val(query.categories))
    /\ query.minPrice # Null
       => p.price >= Val(Number(Val(query.minPrice)))
    /\ query.maxPrice # Null
       => p.price <= Val(Number(Val(query.maxPrice)))
    /\ Truthy(query.sizes)
       => p.size \cap Elements(Val(query.sizes)) # {}
    /\ query.inStock = Some("true") => p.inStock

\* ProductModel.find(filter) casts the filter by the schema first: an id
\* that is no ObjectId and a price that is NaN are a CastError
FilterCastError(query) ==
    \/ /\ Truthy(query.categories)
       /\ \E id \in Elements(Val(query.categories)) : ~IsObjectId(id)
    \/ query.minPrice # Null /\ Number(Val(query.minPrice)) = Null
    \/ query.maxPrice # Null /\ Number(Val(query.maxPrice)) = Null

\* the getProducts controller
getProducts(query) ==
    IF FilterCastError(query)
    THEN Catch(NewRes, "Internal server error")
    ELSE LET found == SortNewestFirst({p \in products : Matches(p, query)})
         IN  Outcome(success(NewRes,
                             [products |-> [k \in 1..Len(found)
                                            |-> populate(found[k])]],
                             "Products fetched successfully"),
                     FALSE, Null, FALSE)

\* the collections of at most n products, with the ids 1..n
RECURSIVE Collections(_)
Collections(n) ==
    IF n = 0 THEN {{}}
    ELSE {c \cup d : c \in Collections(n - 1),
                     d \in {{}} \cup {{p} : p \in FilterProducts(n)}}

FilterInit ==
    /\ products \in Collections(MaxProducts)
    /\ categories \in {{}, {[id |-> 1, name |-> <<"a">>, slug |-> <<"a">>]}}
    /\ users = {} /\ signedUp = {} /\ tokens = {} /\ now = 0
    /\ nextId = MaxProducts
    /\ resp = NoResp
    /\ pure = [kind |-> "none"]
    /\ limits = NoLimits

\* GET /products
GetProducts ==
    /\ resp = NoResp
    /\ \E query \in ProductQueries :
           resp' = Resp("getProducts", query, getProducts(query), TRUE)
    /\ UNCHANGED <<authVars, catalogVars, nextId, pure, limits>>

FilterNext == GetProducts \/ Finish

FilterSpec == FilterInit /\ [][FilterNext]_vars

\* a clause of the claim's filter: a parameter that was supplied
Supplied(param) == param # Null

\* the products that satisfy every supplied clause
Satisfying(query) ==
    {p \in products :
        /\ Supplied(query.categories)
           => p.category \in Elements(Val(query.categories))
        /\ Supplied(query.minPrice)
           => /\ Number(Val(query.minPrice)) # Null
              /\ p.price >= Val(Number(Val(query.minPrice)))
        /\ Supplied(query.maxPrice)
           => /\ Number(Val(query.maxPrice)) # Null
              /\ p.price <= Val(Number(Val(query.maxPrice)))
        /\ Supplied(query.sizes)
           => p.size \cap Elements(Val(query.sizes)) # {}
        /\ query.inStock = Some("true") => p.inStock}

\* the ids of the products a response carries
ReturnedIds(res) ==
    IF res.data = Null THEN {}
    ELSE {p.id : p \in Elements(Val(res.data).products)}

\* C20: getProducts answers with exactly the persisted products that
\* satisfy every supplied clause: category in the list, price >= minPrice,
\* price <= maxPrice, a size in the list, inStock when inStock='true'; an
\* absent parameter restricts nothing.
C20_GetProducts ==
    resp.op = "getProducts" =>
        /\ resp.res.status = OK
        /\ resp.res.data # Null
        /\ ReturnedIds(resp.res) = {p.id : p \in Satisfying(resp.req)}

\* a request whose category list holds an id that is no ObjectId was
\* answered 500 while products were persisted
C20_Witness ==
    /\ resp.op = "getProducts"
    /\ resp.req.categories = Some(<<0>>)
    /\ resp.req.minPrice = Null /\ resp.req.maxPrice = Null
    /\ resp.res.status = INTERNAL_SERVER_ERROR
    /\ products # {}

-----------------------------------------------------------------------------
(* Products: the category reference, partial updates, colliding slugs.     *)

\* C22: createProduct, and updateProduct when it changes the category, do
\* not succeed unless the category id resolves to a persisted category;
\* when it does not, the answer is 400 with an error for field 'category'
\* and the products are unchanged.
C22_CategoryMustExist ==
    [][/\ (Handled("createProduct")
           /\ FindCategoryById(resp'.req.body.category) = Null)
          => /\ resp'.res.status = BAD_REQUEST
             /\ resp'.res.errors = <<"category">>
             /\ products' = products
       /\ Handled("updateProduct")
          => \A p \in FindProductById(resp'.req.id) :
               LET category == LookedUp(p, resp'.req.body.category)
               IN  (category # Null /\ FindCategoryById(Val(category)) = Null)
                   => /\ resp'.res.status = BAD_REQUEST
                      /\ resp'.res.errors = <<"category">>
                      /\ products' = products]_vars

\* a createProduct whose category is no ObjectId was answered 500
C22_Witness ==
    /\ resp.op = "createProduct" /\ resp.handler
    /\ CategoryMalformed(resp.req.body.category)
    /\ resp.res.status = INTERNAL_SERVER_ERROR

\* the value a field has after an update: the body's, or the stored one
Replaced1(field, stored) == IF field # Null THEN Val(field) ELSE stored

SlugCollisions(id, name) ==
    IF FindProductByName(name) # Null THEN {}
    ELSE {p \in products : p.id # id /\ p.slug = generateSlug(name)}

\* C25: a createProduct or updateProduct whose name is that of no persisted
\* product, but whose derived slug is the slug of another persisted
\* product, is answered 400 with validation errors, not 500, and the
\* products are unchanged (the category of the request resolving).
C25_SlugCollision ==
    [][/\ (Handled("createProduct")
           /\ FindCategoryById(resp'.req.body.category) # Null
           /\ SlugCollisions(0, resp'.req.body.name) # {})
          => /\ resp'.res.status = BAD_REQUEST
             /\ resp'.res.errors # <<>>
             /\ products' = products
       /\ Handled("updateProduct")
          => \A p \in FindProductById(resp'.req.id) :
               LET body == resp'.req.body
               IN  (/\ body.name # Null
                    /\ SlugCollisions(p.id, Val(body.name)) # {}
                    /\ LookedUp(p, body.category) = Null)
                   => /\ resp'.res.status = BAD_REQUEST
                      /\ resp'.res.errors # <<>>
                      /\ products' = products]_vars

\* a product named 'A' was sent while a product 'a' was stored: the insert
\* was rejected by the index of slug and the answer was 500
C25_Witness ==
    /\ resp.op = "createProduct" /\ resp.handler
    /\ resp.req.body.name = <<"A">>
    /\ FindCategoryById(resp.req.body.category) # Null
    /\ resp.res.status = INTERNAL_SERVER_ERROR
    /\ \E p \in products : p.name = <<"a">> /\ p.slug = <<"a">>
    /\ \A p \in products : p.name # <<"A">>

-----------------------------------------------------------------------------
(* One response for each request.                                          *)

\* C26: a request a controller handled has got exactly one response: a
\* response was sent, and no send was tried on a response that had been
\* sent before (the exception of such a send leaves the handler uncaught).
C26_OneResponse ==
    resp.handler => (resp.res.sent /\ ~resp.unhandled)

\* a signup with the phone of a persisted user and a new email: after the
\* 400 for the phone the insert ran and the catch block sent again
C26_Witness ==
    /\ resp.op = "signup" /\ resp.handler
    /\ resp.res.status = BAD_REQUEST
    /\ resp.res.errors = <<"phone">>
    /\ resp.unhandled
    /\ FindUserByEmail(resp.req.email) = Null

-----------------------------------------------------------------------------
(* A route behind authenticate and requireRole, while the users change.    *)

\* the role sets a route is gated with
GateRoles == {{"admin"}, {"admin", "user"}}

\* a gate that judges the role the token carries
authenticateThenRequireTokenRole(header, allowedRoles) ==
    LET authenticated == authenticate(header)
        claimed == [Val(authenticated.user)
                        EXCEPT !.role = Val(header.token).role]
    IN  IF ~authenticated.next THEN authenticated
        ELSE requireRole(allowedRoles, Some(claimed))

\* authenticate, then requireRole(...allowedRoles) on the user it attached
authenticateThenRequireRole(header, allowedRoles) ==
    LET authenticated == authenticate(header)
    IN  IF ~authenticated.next THEN authenticated
        ELSE requireRole(allowedRoles, authenticated.user)

\* a request to a route mounted with authenticate, requireRole
Gate ==
    /\ resp = NoResp
    /\ \E header \in AuthHeaders, allowedRoles \in GateRoles :
           resp' = Resp("gate",
                        [authorization |-> header,
                         allowedRoles |-> allowedRoles],
                        authenticateThenRequireRole(header, allowedRoles),
                        FALSE)
    /\ UNCHANGED <<authVars, nextId, catalogVars, pure, limits>>

\* the role of a user is changed in the collection
ChangeRole ==
    /\ resp = NoResp
    /\ \E u \in users, role \in Roles :
           /\ role # u.role
           /\ users' = (users \ {u}) \cup {[u EXCEPT !.role = role]}
    /\ UNCHANGED <<signedUp, tokens, now, nextId, resp, catalogVars, pure, limits>>

GateNext ==
    \/ PostSignup
    \/ PostLogin
    \/ Gate
    \/ Tick
    \/ DeactivateUser
    \/ DeleteUser
    \/ ChangeRole
    \/ Finish

GateSpec == AuthInit /\ [][GateNext]_vars

-----------------------------------------------------------------------------
(* Categories and products by id: get, update, delete.                     *)

UpdateCategoryBodies ==
    [name : Optional({<<"a">>, <<" ", "a">>, <<"B">>}),
     slug : Optional({<<"a">>, <<"A">>, <<"b">>})]

\* updateCategorySchema
updateCategorySchema(body) ==
    Failing(<< <<"name", body.name # Null =>
                            (Len(Val(body.name)) >= 1
                             /\ Len(Val(body.name)) <= CategoryNameMax)>>,
               <<"slug", body.slug # Null =>
                            (Len(Val(body.slug)) >= 1
                             /\ Len(Val(body.slug)) <= CategoryNameMax)>> >>)

\* the getCategoryById controller
getCategoryById(id) ==
    IF ~IsObjectId(id) THEN Catch(NewRes, "Internal server error")
    ELSE IF FindCategoryById(id) = Null
    THEN Outcome(badRequest(NewRes, "Category not found", <<"id">>),
                 FALSE, Null, FALSE)
    ELSE Outcome(success(NewRes, [category |-> Val(FindCategoryById(id))],
                         "Category fetched successfully"),
                 FALSE, Null, FALSE)

\* an update of a category that no unique index guards
CategoryFindByIdAndUpdateNoIndex(stored, id, data) ==
    LET category == Val(stored)
        name == IF data.name # Null THEN trim(Val(data.name))
                ELSE category.name
        slug == IF data.slug # Null THEN trim(toLowerCase(Val(data.slug)))
                ELSE category.slug
        valid == /\ name # <<>> /\ Len(name) <= CategoryNameMax
                 /\ slug # <<>>
    IN  [threw |-> stored # Null /\ ~valid,
         doc |-> IF stored = Null \/ ~valid THEN Null
                 ELSE Some([category EXCEPT !.name = name, !.slug = slug])]

\* CategoryModel.findByIdAndUpdate(id, updateData, { new, runValidators })
\* on the category stored under id now (none: it returns null): the defined
\* fields pass the setters and their validators and replace the stored
\* ones. It throws when a validator or a unique index rejects the update.
CategoryFindByIdAndUpdate(stored, id, data) ==
    LET category == Val(stored)
        name == IF data.name # Null THEN trim(Val(data.name))
                ELSE category.name
        slug == IF data.slug # Null THEN trim(toLowerCase(Val(data.slug)))
                ELSE category.slug
        valid == /\ name # <<>> /\ Len(name) <= CategoryNameMax
                 /\ slug # <<>>
        duplicate == \E c \in categories :
                        c.id # id /\ (c.name = name \/ c.slug = slug)
    IN  [threw |-> stored # Null /\ (~valid \/ duplicate),
         doc |-> IF stored = Null \/ ~valid \/ duplicate THEN Null
                 ELSE Some([category EXCEPT !.name = name, !.slug = slug])]

\* updateCategory: the name (slug) the body changes belongs to another
\* category
CategoryFieldTaken(id, found) == found # Null /\ Val(found).id # id

\* the checks of updateCategory on the category it loaded, in their order:
\* the response of the check that fails, or nothing
updateCategoryNameCheck(id, category, body) ==
    IF /\ body.name # Null /\ Val(body.name) # <<>>
       /\ Val(body.name) # category.name
       /\ CategoryFieldTaken(id, FindCategoryByName(Val(body.name)))
    THEN Some(Outcome(badRequest(NewRes, "Category name already exists",
                                 <<"name">>), FALSE, Null, FALSE))
    ELSE Null

updateCategorySlugCheck(id, category, body) ==
    IF /\ body.slug # Null /\ Val(body.slug) # <<>>
       /\ Val(body.slug) # category.slug
       /\ CategoryFieldTaken(id, FindCategoryBySlug(Val(body.slug)))
    THEN Some(Outcome(badRequest(NewRes, "Category slug already exists",
                                 <<"slug">>), FALSE, Null, FALSE))
    ELSE Null

\* the last step of updateCategory: findByIdAndUpdate and the response
updateCategoryWrite(id, body) ==
    LET updated == CategoryFindByIdAndUpdate(FindCategoryById(id), id, body)
    IN  IF updated.threw
        THEN [out |-> Catch(NewRes, "Internal server error"),
              updated |-> Null]
        ELSE [out |-> Outcome(success(NewRes, [category |-> updated.doc],
                                      "Category updated successfully"),
                              FALSE, Null, FALSE),
              updated |-> updated.doc]

\* the updateCategory controller
updateCategory(id, body) ==
    LET found == FindCategoryById(id)
        nameCheck == updateCategoryNameCheck(id, Val(found), body)
        slugCheck == updateCategorySlugCheck(id, Val(found), body)
    IN  IF ~IsObjectId(id)
        THEN [out |-> Catch(NewRes, "Internal server error"), updated |-> Null]
        ELSE IF found = Null
        THEN [out |-> Outcome(badRequest(NewRes, "Category not found",
                                         <<"id">>), FALSE, Null, FALSE),
              updated |-> Null]
        ELSE IF nameCheck # Null
        THEN [out |-> Val(nameCheck), updated |-> Null]
        ELSE IF slugCheck # Null
        THEN [out |-> Val(slugCheck), updated |-> Null]
        ELSE updateCategoryWrite(id, body)

\* the deleteCategory controller: findByIdAndDelete and the response
deleteCategory(id) ==
    IF ~IsObjectId(id)
    THEN [out |-> Catch(NewRes, "Internal server error"), deleted |-> Null]
    ELSE IF FindCategoryById(id) = Null
    THEN [out |-> Outcome(badRequest(NewRes, "Category not found", <<"id">>),
                          FALSE, Null, FALSE),
          deleted |-> Null]
    ELSE [out |-> Outcome(success(NewRes, <<>>,
                                  "Category deleted successfully"),
                          FALSE, Null, FALSE),
          deleted |-> FindCategoryById(id)]

\* ProductModel.findOne({ slug }): the query value passes the setters
FindProductBySlug(slug) ==
    FindOne({p \in products : p.slug = trim(toLowerCase(slug))})

\* the getProductBySlug controller
getProductBySlug(slug) ==
    IF FindProductBySlug(slug) = Null
    THEN Outcome(badRequest(NewRes, "Product not found", <<"slug">>),
                 FALSE, Null, FALSE)
    ELSE Outcome(success(NewRes,
                         [product |-> populate(Val(FindProductBySlug(slug)))],
                         "Product fetched successfully"),
                 FALSE, Null, FALSE)

\* the getProductById controller
getProductById(id) ==
    IF ~IsObjectId(id) THEN Catch(NewRes, "Internal server error")
    ELSE IF FindProductById(id) = Null
    THEN Outcome(badRequest(NewRes, "Product not found", <<"id">>),
                 FALSE, Null, FALSE)
    ELSE Outcome(success(NewRes,
                         [product |-> populate(Val(FindProductById(id)))],
                         "Product fetched successfully"),
                 FALSE, Null, FALSE)

\* the deleteProduct controller
deleteProduct(id) ==
    IF ~IsObjectId(id)
    THEN [out |-> Catch(NewRes, "Internal server error"), deleted |-> Null]
    ELSE IF FindProductById(id) = Null
    THEN [out |-> Outcome(badRequest(NewRes, "Product not found", <<"id">>),
                          FALSE, Null, FALSE),
          deleted |-> Null]
    ELSE [out |-> Outcome(success(NewRes, <<>>,
                                  "Product deleted successfully"),
                          FALSE, Null, FALSE),
          deleted |-> FindProductById(id)]

\* GET /categories/:id
GetCategoryById ==
    /\ resp = NoResp
    /\ \E id \in RequestIds :
           resp' = Resp("getCategoryById", [id |-> id], getCategoryById(id),
                        TRUE)
    /\ UNCHANGED <<authVars, catalogVars, nextId, pure, limits>>

\* PUT /categories/:id: validate(updateCategorySchema), updateCategory
PutCategory ==
    /\ resp = NoResp
    /\ \E id \in RequestIds, body \in UpdateCategoryBodies :
           LET v == validate(updateCategorySchema(body))
               r == updateCategory(id, body)
               req == [id |-> id, body |-> body]
           IN  IF ~v.next
               THEN /\ resp' = Resp("updateCategory", req, v, FALSE)
                    /\ categories' = categories
               ELSE /\ resp' = Resp("updateCategory", req, r.out, TRUE)
                    /\ categories' =
                          IF r.updated = Null THEN categories
                          ELSE {c \in categories : c.id # id} \cup r.updated
    /\ UNCHANGED <<authVars, products, nextId, pure, limits>>

\* DELETE /categories/:id
DeleteCategory ==
    /\ resp = NoResp
    /\ \E id \in RequestIds :
           LET r == deleteCategory(id)
           IN  /\ resp' = Resp("deleteCategory", [id |-> id], r.out, TRUE)
               /\ categories' = categories \ r.deleted
    /\ UNCHANGED <<authVars, products, nextId, pure, limits>>

\* GET /products/slug/:slug
GetProductBySlug ==
    /\ resp = NoResp
    /\ \E slug \in {<<"a">>, <<"A">>, <<"b">>} :
           resp' = Resp("getProductBySlug", [slug |-> slug],
                        getProductBySlug(slug), TRUE)
    /\ UNCHANGED <<authVars, catalogVars, nextId, pure, limits>>

\* GET /products/:id
GetProductById ==
    /\ resp = NoResp
    /\ \E id \in RequestIds :
           resp' = Resp("getProductById", [id |-> id], getProductById(id),
                        TRUE)
    /\ UNCHANGED <<authVars, catalogVars, nextId, pure, limits>>

\* DELETE /products/:id
DeleteProduct ==
    /\ resp = NoResp
    /\ \E id \in RequestIds :
           LET r == deleteProduct(id)
           IN  /\ resp' = Resp("deleteProduct", [id |-> id], r.out, TRUE)
               /\ products' = products \ r.deleted
    /\ UNCHANGED <<authVars, categories, nextId, pure, limits>>

\* the category and product routes
CrudNext ==
    \/ PostCategory(PlainCategoryBodies)
    \/ GetCategoryById
    \/ PutCategory
    \/ DeleteCategory
    \/ PostProduct
    \/ GetProductBySlug
    \/ GetProductById
    \/ PutProduct
    \/ DeleteProduct
    \/ Finish

CrudSpec == Init /\ [][CrudNext]_vars

\* the routes that address a category, and a product, by id
CategoryByIdOps == {"getCategoryById", "updateCategory", "deleteCategory"}
ProductByIdOps == {"getProductById", "updateProduct", "deleteProduct"}

\* the answer for an id (slug) that is not persisted: 400 with one error
\* for the field
NotFound(res, field) ==
    /\ res.sent /\ res.status = BAD_REQUEST /\ ~res.success
    /\ res.errors = <<field>>

\* C23: get, update and delete of a category or product by an id that is
\* not persisted, and get of a product by a slug no product has, are
\* answered 400 with one error for field 'id' ('slug') and change no
\* category and no product. Ids are not given twice, so this is the answer
\* for an id after its delete as well.
C23_NotFound ==
    [][/\ (\E op \in CategoryByIdOps : Handled(op))
          /\ FindCategoryById(resp'.req.id) = Null
          => /\ NotFound(resp'.res, "id")
             /\ UNCHANGED catalogVars
       /\ (\E op \in ProductByIdOps : Handled(op))
          /\ FindProductById(resp'.req.id) = Null
          => /\ NotFound(resp'.res, "id")
             /\ UNCHANGED catalogVars
       /\ Handled("getProductBySlug")
          /\ FindProductBySlug(resp'.req.slug) = Null
          => /\ NotFound(resp'.res, "slug")
             /\ UNCHANGED catalogVars]_vars

\* a category was asked for by an id that is no ObjectId, and the answer
\* was 500
C23_Witness ==
    /\ resp.op = "getCategoryById" /\ resp.handler
    /\ ~IsObjectId(resp.req.id)
    /\ resp.res.status = INTERNAL_SERVER_ERROR
    /\ categories # {}

\* C27: the category of every persisted product is a persisted category.
C27_CategoryResolves ==
    \A p \in products : FindCategoryById(p.category) # Null

\* a category was deleted while a product referred to it
C27_Witness ==
    /\ resp.op = "deleteCategory" /\ resp.handler
    /\ resp.res.status = OK
    /\ \E p \in products : p.category = resp.req.id

-----------------------------------------------------------------------------
(* Category requests in flight together: every await of a controller is a  *)
(* point where another request's step can run.                             *)

MaxClients == 2       \* connections with a request in flight
MaxRaceDocs == 2      \* documents created while requests race

Clients == 1..MaxClients

RaceNames == {<<"a">>, <<"b">>}
RaceSlugs == {<<"a">>, <<"A">>, <<"b">>}

\* no request on a connection
Idle == [op |-> "idle"]

NoOut == Outcome(NewRes, FALSE, Null, FALSE)

\* the categories other than id that hold the name, and the slug, as stored
NameHolders(id, name) ==
    {c \in categories : c.id # id /\ c.name = trim(name)}
SlugHolders(id, slug) ==
    {c \in categories : c.id # id /\ c.slug = trim(toLowerCase(slug))}

\* a createCategory request as it enters the controller. Beside the
\* request it records what held when it arrived: whether its name and slug
\* were unused.
NewCreateCategory(body) ==
    [op |-> "createCategory", id |-> 0,
     body |-> [name |-> Some(body.name), slug |-> Some(body.slug)],
     pc |-> "name", loaded |-> Null, out |-> NoOut,
     raced |-> FALSE, wrote |-> FALSE,
     nameHeld |-> NameHolders(0, body.name) # {},
     slugHeld |-> SlugHolders(0, body.slug) # {},
     ownOnly |-> FALSE]

\* an updateCategory request as it enters the controller, with what held
\* when it arrived: whether the category was persisted and another one had
\* the name or slug of the body, and whether the body repeats the
\* category's own name and slug
NewUpdateCategory(id, body) ==
    [op |-> "updateCategory", id |-> id, body |-> body,
     pc |-> "load", loaded |-> Null, out |-> NoOut,
     raced |-> FALSE, wrote |-> FALSE,
     nameHeld |-> /\ FindCategoryById(id) # Null /\ body.name # Null
                  /\ NameHolders(id, Val(body.name)) # {},
     slugHeld |-> /\ FindCategoryById(id) # Null /\ body.slug # Null
                  /\ SlugHolders(id, Val(body.slug)) # {},
     ownOnly |-> \E c \in categories :
                    /\ c.id = id
                    /\ body.name # Null => Val(body.name) = c.name
                    /\ body.slug # Null => Val(body.slug) = c.slug]

\* the request ends with this response
Done(r, out) == [r EXCEPT !.pc = "done", !.out = out]

\* one step of createCategory: from one await to the next
createCategoryStep(r) ==
    LET body == [name |-> Val(r.body.name), slug |-> Val(r.body.slug)]
        created == CategoryModelCreate(body)
    IN  IF r.pc = "name"
        THEN IF FindCategoryByName(body.name) # Null
             THEN Done(r, Outcome(badRequest(NewRes,
                                     "Category name already exists",
                                     <<"name">>), FALSE, Null, FALSE))
             ELSE [r EXCEPT !.pc = "slug"]
        ELSE IF r.pc = "slug"
        THEN IF FindCategoryBySlug(body.slug) # Null
             THEN Done(r, Outcome(badRequest(NewRes,
                                     "Category slug already exists",
                                     <<"slug">>), FALSE, Null, FALSE))
             ELSE [r EXCEPT !.pc = "write"]
        ELSE IF created.threw
        THEN Done(r, Catch(NewRes, "Internal server error"))
        ELSE [Done(r, Outcome(success(NewRes, [category |-> created.doc],
                                      "Category created successfully"),
                              FALSE, Null, FALSE))
                EXCEPT !.wrote = TRUE, !.loaded = Some(created.doc)]

\* one step of updateCategory
updateCategoryStep(r) ==
    LET nameCheck == updateCategoryNameCheck(r.id, Val(r.loaded), r.body)
        slugCheck == updateCategorySlugCheck(r.id, Val(r.loaded), r.body)
        written == updateCategoryWrite(r.id, r.body)
    IN  IF r.pc = "load"
        THEN IF ~IsObjectId(r.id)
             THEN Done(r, Catch(NewRes, "Internal server error"))
             ELSE IF FindCategoryById(r.id) = Null
             THEN Done(r, Outcome(badRequest(NewRes, "Category not found",
                                             <<"id">>), FALSE, Null, FALSE))
             ELSE [r EXCEPT !.pc = "name", !.loaded = FindCategoryById(r.id)]
        ELSE IF r.pc = "name"
        THEN IF nameCheck # Null THEN Done(r, Val(nameCheck))
             ELSE [r EXCEPT !.pc = "slug"]
        ELSE IF r.pc = "slug"
        THEN IF slugCheck # Null THEN Done(r, Val(slugCheck))
             ELSE [r EXCEPT !.pc = "write"]
        ELSE [Done(r, written.out)
                EXCEPT !.wrote = written.updated # Null,
                       !.loaded = written.updated]

\* the creates in flight that have not inserted yet
PendingCreates(op) ==
    {c \in Clients : pure.reqs[c].op = op /\ pure.reqs[c].pc # "done"}

RaceInit ==
    /\ pure = [kind |-> "race", reqs |-> [c \in Clients |-> Idle]]
    /\ users = {} /\ signedUp = {} /\ tokens = {} /\ now = 0
    /\ categories = {} /\ products = {} /\ nextId = 0
    /\ resp = NoResp
    /\ limits = NoLimits

\* POST /categories arrives on a connection and passes validate
ArriveCreateCategory(c) ==
    /\ pure.reqs[c] = Idle
    /\ nextId + Cardinality(PendingCreates("createCategory")) < MaxRaceDocs
    /\ \E body \in [name : RaceNames, slug : RaceSlugs] :
           /\ validate(createCategorySchema(body)).next
           /\ pure' = [pure EXCEPT !.reqs[c] = NewCreateCategory(body)]
    /\ UNCHANGED <<authVars, catalogVars, nextId, resp, limits>>

\* PUT /categories/:id arrives on a connection and passes validate
ArriveUpdateCategory(c) ==
    /\ pure.reqs[c] = Idle
    /\ \E id \in 1..MaxRaceDocs,
          body \in [name : Optional(RaceNames), slug : Optional(RaceSlugs)] :
           /\ validate(updateCategorySchema(body)).next
           /\ pure' = [pure EXCEPT !.reqs[c] = NewUpdateCategory(id, body)]
    /\ UNCHANGED <<authVars, catalogVars, nextId, resp, limits>>

\* the requests in flight beside c see the collection change under them
Disturb(reqs, c) ==
    [d \in Clients |->
        IF d # c /\ reqs[d].op # "idle" /\ reqs[d].pc # "done"
        THEN [reqs[d] EXCEPT !.raced = TRUE] ELSE reqs[d]]

\* the controller of the request on connection c runs to its next await
StepCategory(c) ==
    /\ pure.reqs[c].op \in {"createCategory", "updateCategory"}
    /\ pure.reqs[c].pc # "done"
    /\ LET r == pure.reqs[c]
           after == IF r.op = "createCategory" THEN createCategoryStep(r)
                    ELSE updateCategoryStep(r)
           reqs == [pure.reqs EXCEPT ![c] = after]
       IN  IF after.wrote
           THEN /\ categories' = {x \in categories : x.id # Val(after.loaded).id}
                                 \cup after.loaded
                /\ nextId' = IF r.op = "createCategory" THEN nextId + 1
                             ELSE nextId
                /\ pure' = [pure EXCEPT !.reqs = Disturb(reqs, c)]
           ELSE /\ pure' = [pure EXCEPT !.reqs = reqs]
                /\ UNCHANGED <<categories, nextId>>
    /\ UNCHANGED <<authVars, products, resp, limits>>

\* the response is written out and the connection is free again
Leave(c) ==
    /\ pure.reqs[c].op # "idle" /\ pure.reqs[c].pc = "done"
    /\ pure' = [pure EXCEPT !.reqs[c] = Idle]
    /\ UNCHANGED <<authVars, catalogVars, nextId, resp, limits>>

CategoryRaceNext ==
    \E c \in Clients :
        \/ ArriveCreateCategory(c)
        \/ ArriveUpdateCategory(c)
        \/ StepCategory(c)
        \/ Leave(c)

CategoryRaceSpec == RaceInit /\ [][CategoryRaceNext]_vars

\* the requests that have ended on a connection
Ended(op) ==
    {pure.reqs[c] : c \in {d \in Clients : /\ pure.reqs[d].op = op
                                           /\ pure.reqs[d].pc = "done"}}

\* no two persisted categories share a name or a slug
UniqueCategories ==
    \A c, d \in categories :
        (c.name = d.name \/ c.slug = d.slug) => c = d

\* C21: of createCategory requests in flight together with the same name
\* (or the same slug), at most one is persisted and at most one succeeds,
\* and a request that arrived while the name (slug) was unused and lost to
\* another one is answered as a sequential duplicate is: 400 with an error
\* for field 'name' ('slug').
C21_ConcurrentCreate ==
    /\ UniqueCategories
    /\ \A c, d \in Clients :
         LET r == pure.reqs[c]
             q == pure.reqs[d]
         IN  (/\ c # d
              /\ r.op = "createCategory" /\ r.pc = "done"
              /\ q.op = "createCategory" /\ q.pc = "done"
              /\ r.out.res.status = OK
              /\ ~q.nameHeld /\ ~q.slugHeld)
             => /\ trim(Val(q.body.name)) = trim(Val(r.body.name))
                   => /\ q.out.res.status = BAD_REQUEST
                      /\ q.out.res.errors = <<"name">>
                /\ (/\ trim(Val(q.body.name)) # trim(Val(r.body.name))
                    /\ StoredSlug(Val(q.body.slug)) = StoredSlug(Val(r.body.slug)))
                   => /\ q.out.res.status = BAD_REQUEST
                      /\ q.out.res.errors = <<"slug">>

\* two createCategory requests with the same name were in flight together:
\* one succeeded, the other passed its checks before the insert of the
\* first and was answered 500
C21_Witness ==
    \E c, d \in Clients :
        LET r == pure.reqs[c]
            q == pure.reqs[d]
        IN  /\ c # d
            /\ r.op = "createCategory" /\ r.pc = "done"
            /\ q.op = "createCategory" /\ q.pc = "done"
            /\ Val(r.body.name) = Val(q.body.name)
            /\ r.out.res.status = OK
            /\ q.out.res.status = INTERNAL_SERVER_ERROR
            /\ Cardinality(categories) = 1

\* C30: no two persisted categories share a name or a slug, however
\* createCategory and updateCategory requests interleave. An
\* updateCategory that ran with no write of another request between its
\* arrival and its end was answered 400 with an error for field 'name'
\* when its name was held by a different category, 400 with an error for
\* field 'slug' when its slug (and not its name) was, and wrote nothing in
\* either case; and it was accepted when its body repeated the category's
\* own name and slug.
C30_UpdateCategory ==
    /\ UniqueCategories
    /\ \A r \in Ended("updateCategory") :
         ~r.raced =>
            /\ r.nameHeld
               => /\ r.out.res.status = BAD_REQUEST
                  /\ r.out.res.errors = <<"name">>
                  /\ ~r.wrote
            /\ (r.slugHeld /\ ~r.nameHeld)
               => /\ r.out.res.status = BAD_REQUEST
                  /\ r.out.res.errors = <<"slug">>
                  /\ ~r.wrote
            /\ r.ownOnly => r.out.res.status = OK

\* an update was refused the slug of another category, which it sent in
\* capitals, and an update that repeated a category's own name and slug
\* was accepted
C30_Witness ==
    /\ Cardinality(categories) = 2
    /\ \E r, q \in Ended("updateCategory") :
           /\ ~r.raced /\ r.slugHeld /\ ~r.nameHeld
           /\ r.body.slug = Some(<<"A">>)
           /\ r.out.res.errors = <<"slug">>
           /\ ~q.raced /\ q.ownOnly
           /\ q.body.name # Null /\ q.body.slug # Null
           /\ q.out.res.status = OK

-----------------------------------------------------------------------------
(* Product requests in flight together.                                    *)

RaceProductBodies == [name : ProductNameInputs, stock : {0}, category : {1}]
RaceProductUpdates ==
    [name : Optional(ProductNameInputs), stock : Optional({1}),
     category : {Null}]

NewCreateProduct(body) ==
    [op |-> "createProduct", id |-> 0,
     body |-> [name |-> Some(body.name), stock |-> Some(body.stock),
               category |-> Some(body.category)],
     pc |-> "category", loaded |-> Null, out |-> NoOut, wrote |-> FALSE]

NewUpdateProduct(id, body) ==
    [op |-> "updateProduct", id |-> id, body |-> body,
     pc |-> "load", loaded |-> Null, out |-> NoOut, wrote |-> FALSE]

\* one step of createProduct: from one await to the next
createProductStep(r) ==
    LET body == [name |-> Val(r.body.name), stock |-> Val(r.body.stock),
                 category |-> Val(r.body.category)]
        created == ProductModelCreate([name |-> body.name,
                                       slug |-> generateSlug(body.name),
                                       stock |-> body.stock,
                                       category |-> body.category])
    IN  IF r.pc = "category"
        THEN IF ~IsObjectId(body.category)
             THEN Done(r, Catch(NewRes, "Internal server error"))
             ELSE IF FindCategoryById(body.category) = Null
             THEN Done(r, Outcome(badRequest(NewRes, "Category not found",
                                             <<"category">>),
                                  FALSE, Null, FALSE))
             ELSE [r EXCEPT !.pc = "name"]
        ELSE IF r.pc = "name"
        THEN IF FindProductByName(body.name) # Null
             THEN Done(r, Outcome(badRequest(NewRes,
                                     "Product name already exists",
                                     <<"name">>), FALSE, Null, FALSE))
             ELSE [r EXCEPT !.pc = "write"]
        ELSE IF created.threw
        THEN Done(r, Catch(NewRes, "Internal server error"))
        ELSE [Done(r, Outcome(success(NewRes, [product |-> created.doc],
                                      "Product created successfully"),
                              FALSE, Null, FALSE))
                EXCEPT !.wrote = TRUE, !.loaded = Some(created.doc)]

\* one step of updateProduct; the checks read the product as it was loaded
updateProductStep(r) ==
    LET product == Val(r.loaded)
        category == LookedUp(product, r.body.category)
        changesName == /\ r.body.name # Null /\ Val(r.body.name) # <<>>
                       /\ Val(r.body.name) # product.name
        stored == FindProductById(r.id)
        updated == ProductFindByIdAndUpdate(Val(stored), UpdateData(r.body))
    IN  IF r.pc = "load"
        THEN IF ~IsObjectId(r.id)
             THEN Done(r, Catch(NewRes, "Internal server error"))
             ELSE IF FindProductById(r.id) = Null
             THEN Done(r, Outcome(badRequest(NewRes, "Product not found",
                                             <<"id">>), FALSE, Null, FALSE))
             ELSE [r EXCEPT !.pc = "category",
                            !.loaded = FindProductById(r.id)]
        ELSE IF r.pc = "category"
        THEN IF category # Null /\ ~IsObjectId(Val(category))
             THEN Done(r, Catch(NewRes, "Internal server error"))
             ELSE IF category # Null /\ FindCategoryById(Val(category)) = Null
             THEN Done(r, Outcome(badRequest(NewRes, "Category not found",
                                             <<"category">>),
                                  FALSE, Null, FALSE))
             ELSE [r EXCEPT !.pc = "name"]
        ELSE IF r.pc = "name"
        THEN IF changesName
                /\ NameTakenByOther(r.id, FindProductByName(Val(r.body.name)))
             THEN Done(r, Outcome(badRequest(NewRes,
                                     "Product name already exists",
                                     <<"name">>), FALSE, Null, FALSE))
             ELSE [r EXCEPT !.pc = "write"]
        ELSE IF stored = Null
        THEN Done(r, Outcome(success(NewRes, [product |-> Null],
                                     "Product updated successfully"),
                             FALSE, Null, FALSE))
        ELSE IF updated.threw
        THEN Done(r, Catch(NewRes, "Internal server error"))
        ELSE [Done(r, Outcome(success(NewRes, [product |-> updated.doc],
                                      "Product updated successfully"),
                              FALSE, Null, FALSE))
                EXCEPT !.wrote = TRUE, !.loaded = Some(updated.doc)]

\* one category is persisted, so that products can be created
ProductRaceInit ==
    /\ pure = [kind |-> "race", reqs |-> [c \in Clients |-> Idle]]
    /\ users = {} /\ signedUp = {} /\ tokens = {} /\ now = 0
    /\ categories = {[id |-> 1, name |-> <<"a">>, slug |-> <<"a">>]}
    /\ products = {} /\ nextId = 1
    /\ resp = NoResp
    /\ limits = NoLimits

\* POST /products arrives on a connection and passes validate
ArriveCreateProduct(c) ==
    /\ pure.reqs[c] = Idle
    /\ nextId + Cardinality(PendingCreates("createProduct")) < 1 + MaxRaceDocs
    /\ \E body \in RaceProductBodies :
           /\ validate(createProductSchema(body)).next
           /\ pure' = [pure EXCEPT !.reqs[c] = NewCreateProduct(body)]
    /\ UNCHANGED <<authVars, catalogVars, nextId, resp, limits>>

\* PUT /products/:id arrives on a connection and passes validate
ArriveUpdateProduct(c) ==
    /\ pure.reqs[c] = Idle
    /\ \E id \in 2..(1 + MaxRaceDocs), body \in RaceProductUpdates :
           /\ validate(updateProductSchema(body)).next
           /\ pure' = [pure EXCEPT !.reqs[c] = NewUpdateProduct(id, body)]
    /\ UNCHANGED <<authVars, catalogVars, nextId, resp, limits>>

\* the controller of the request on connection c runs to its next await
StepProduct(c) ==
    /\ pure.reqs[c].op \in {"createProduct", "updateProduct"}
    /\ pure.reqs[c].pc # "done"
    /\ LET r == pure.reqs[c]
           after == IF r.op = "createProduct" THEN createProductStep(r)
                    ELSE updateProductStep(r)
       IN  /\ pure' = [pure EXCEPT !.reqs[c] = after]
           /\ IF after.wrote
              THEN /\ products' = {x \in products : x.id # Val(after.loaded).id}
                                  \cup after.loaded
                   /\ nextId' = IF r.op = "createProduct" THEN nextId + 1
                                ELSE nextId
              ELSE UNCHANGED <<products, nextId>>
    /\ UNCHANGED <<authVars, categories, resp, limits>>

ProductRaceNext ==
    \E c \in Clients :
        \/ ArriveCreateProduct(c)
        \/ ArriveUpdateProduct(c)
        \/ StepProduct(c)
        \/ Leave(c)

ProductRaceSpec == ProductRaceInit /\ [][ProductRaceNext]_vars

\* C28: every persisted product has slug = generateSlug(name), and no two
\* persisted products share a name or a slug, however createProduct and
\* updateProduct requests interleave.
C28_ProductSlugs ==
    /\ \A p \in products : p.slug = generateSlug(p.name)
    /\ \A p, q \in products :
           (p.name = q.name \/ p.slug = q.slug) => p = q

\* two createProduct requests with the same name were past the name check
\* together: one product is stored and the other insert was refused
C28_Witness ==
    \E c, d \in Clients :
        LET r == pure.reqs[c]
            q == pure.reqs[d]
        IN  /\ c # d
            /\ r.op = "createProduct" /\ r.pc = "done"
            /\ q.op = "createProduct" /\ q.pc = "done"
            /\ r.body.name = q.body.name
            /\ r.out.res.status = OK
            /\ q.out.res.status = INTERNAL_SERVER_ERROR
            /\ \E p \in products : p.name = Val(r.body.name)

=============================================================================
